---- MODULE Spec2Model ----
(***************************************************************************)
(* Model of the C++ execution-trace engine and its session registry        *)
(* (backend/services/lldbService.js, class LLDBService).                   *)
(*                                                                         *)
(* A source text is a sequence of lines.  A line is the record of what the *)
(* engine's regular expressions and string tests see in it: its statement  *)
(* shape (kind), the captured names and expressions, and the number of     *)
(* '{' and '}' characters it holds.  JavaScript values are records         *)
(* [t, n, s, a]: numbers, strings, NaN, undefined, null, references to     *)
(* live array objects, and the array copies a snapshot owns.               *)
(***************************************************************************)
EXTENDS Integers, Sequences, FiniteSets, TLC

VARIABLES
    sessions,      \* this.sessions: session id -> [states, currentStep, code]
    nextId,        \* number of session ids uuidv4() has produced so far
    budget,        \* startSession requests the client may still make
    suite,         \* which set of sources the client submits
    resp,          \* the result returned by the last request
    fwd,           \* history: session id -> number of stepForward requests
                   \* since its start (counted up to totalSteps) while no
                   \* stepBackward was made, else -1
    failed,        \* history: the ids of the starts the compiler rejected
    ended,         \* history: the ids endSession has removed
    query,         \* the text and variable map last handed to an evaluator
    answer,        \* what the evaluator returned for it
    pc,            \* position inside startSession / simulateExecution
    code,          \* index of the source being simulated
    i,             \* line index of the running pass (1-based)
    inMain,        \* simulateExecution: inMain
    variables,     \* simulateExecution: variables (insertion-ordered Map)
    heap,          \* simulateExecution: heap (insertion-ordered Map)
    arrays,        \* the live array objects, by reference
    now,           \* Date.now()
    states,        \* simulateExecution: states
    stepCount,     \* simulateExecution: stepCount
    loopRanges,    \* simulateExecution: loopRanges
    loop,          \* simulateLoop: locals (loop index, iter, body position, ...)
    loopStates     \* simulateLoop: states

engineVars == <<pc, code, i, inMain, variables, heap, arrays, now, states,
                stepCount, loopRanges, loop, loopStates>>
facadeVars == <<sessions, nextId, budget, suite, resp, fwd, failed, ended,
                query, answer>>
vars == <<sessions, nextId, budget, suite, resp, fwd, failed, ended, query,
          answer, pc, code,
          i, inMain,
          variables, heap, arrays, now, states, stepCount, loopRanges, loop,
          loopStates>>

(***************************************************************************)
(* Bounds of the model.                                                    *)
(***************************************************************************)
MaxStarts == 2        \* startSession requests per behaviour (facade suite)
MaxClock == 1         \* milliseconds Date.now() may advance during a run
MaxStep == 2          \* largest step a getState request names, besides the
                      \* two around the end of the trace

(***************************************************************************)
(* JavaScript values.                                                      *)
(***************************************************************************)
Num(n) == [t |-> "num", n |-> n, s |-> "", a |-> <<>>]
Str(s) == [t |-> "str", n |-> 0, s |-> s, a |-> <<>>]
NaN == [t |-> "nan", n |-> 0, s |-> "", a |-> <<>>]
Undef == [t |-> "undef", n |-> 0, s |-> "", a |-> <<>>]
Null == [t |-> "null", n |-> 0, s |-> "", a |-> <<>>]
\* a reference to the live array object arrays[r]
ArrRef(r) == [t |-> "arr", n |-> r, s |-> "", a |-> <<>>]
\* an array object reachable from one snapshot only
OwnArr(elems) == [t |-> "own", n |-> 0, s |-> "", a |-> elems]
\* the string `heap_${name}_${Date.now()}`
HeapIdOf(name, time) == [t |-> "hid", n |-> time, s |-> name, a |-> <<>>]
\* the string `var_${name}`
VarIdOf(name) == [t |-> "vid", n |-> 0, s |-> name, a |-> <<>>]
\* the string `&${name}`
AddrOf(name) == [t |-> "addr", n |-> 0, s |-> name, a |-> <<>>]
\* the result of a string concatenation (its characters are not modelled)
Concat == [t |-> "cat", n |-> 0, s |-> "", a |-> <<>>]

IsNum(v) == v.t = "num"
IsString(v) == v.t \in {"str", "hid", "vid", "addr", "cat"}
IsArray(v) == v.t \in {"arr", "own"}
\* JavaScript truthiness (strings of the model are never empty)
Truthy(v) ==
    CASE v.t = "num" -> v.n # 0
      [] v.t \in {"nan", "undef", "null"} -> FALSE
      [] OTHER -> TRUE

Elems(v, arrs) == IF v.t = "arr" THEN arrs[v.n] ELSE v.a

\* ToNumber: the strings of the model hold no digits; an array converts
\* through its join(","), so only arrays of at most one element convert.
RECURSIVE ToNumber(_, _, _)
ToNumber(v, arrs, depth) ==
    CASE v.t = "num" -> v
      [] v.t = "null" -> Num(0)
      [] IsArray(v) ->
            LET el == Elems(v, arrs) IN
            IF Len(el) = 0 THEN Num(0)
            ELSE IF Len(el) > 1 \/ depth = 0 THEN NaN
            ELSE IF el[1].t \in {"undef", "null"} THEN Num(0)
            ELSE ToNumber(el[1], arrs, depth - 1)
      [] OTHER -> NaN

FloorDiv(x, y) == x \div y     \* Math.floor(x / y): TLA+ \div rounds down
JsRem(x, y) ==                 \* JavaScript %: the sign of the dividend
    IF x >= 0 THEN x % (IF y < 0 THEN -y ELSE y)
    ELSE -((-x) % (IF y < 0 THEN -y ELSE y))

\* x - y, x * y on JavaScript values
JsSub(x, y, arrs) ==
    LET a == ToNumber(x, arrs, 2)  b == ToNumber(y, arrs, 2) IN
    IF IsNum(a) /\ IsNum(b) THEN Num(a.n - b.n) ELSE NaN
JsMul(x, y, arrs) ==
    LET a == ToNumber(x, arrs, 2)  b == ToNumber(y, arrs, 2) IN
    IF IsNum(a) /\ IsNum(b) THEN Num(a.n * b.n) ELSE NaN
\* x + y: concatenation as soon as one side is a string or an array
JsAdd(x, y, arrs) ==
    IF IsString(x) \/ IsString(y) \/ IsArray(x) \/ IsArray(y) THEN Concat
    ELSE LET a == ToNumber(x, arrs, 2)  b == ToNumber(y, arrs, 2) IN
         IF IsNum(a) /\ IsNum(b) THEN Num(a.n + b.n) ELSE NaN
\* x < y with numeric operands (NaN compares false)
JsLess(x, y, arrs) ==
    LET a == ToNumber(x, arrs, 2)  b == ToNumber(y, arrs, 2) IN
    IsNum(a) /\ IsNum(b) /\ a.n < b.n
\* Math.abs, Math.max(x, 0), Math.min(x, 50)
MathAbs(x) == IF IsNum(x) THEN Num(IF x.n < 0 THEN -x.n ELSE x.n) ELSE NaN
MathMax(x, n) == IF IsNum(x) THEN Num(IF x.n > n THEN x.n ELSE n) ELSE NaN
MathMin(x, n) == IF IsNum(x) THEN Num(IF x.n < n THEN x.n ELSE n) ELSE NaN

(***************************************************************************)
(* The variable map and the heap: JavaScript Maps, kept as sequences in    *)
(* insertion order.  Map.set on a present key replaces the entry in place. *)
(***************************************************************************)
TypeOf(base, ptr, len) == [base |-> base, ptr |-> ptr, len |-> len]

MapHas(m, key) == \E k \in 1..Len(m) : m[k].name = key
MapIdx(m, key) == CHOOSE k \in 1..Len(m) : m[k].name = key
MapGet(m, key) == m[MapIdx(m, key)]
MapSet(m, key, rec) ==
    IF MapHas(m, key) THEN [m EXCEPT ![MapIdx(m, key)] = rec]
    ELSE Append(m, rec)

HeapHas(hp, id) == \E k \in 1..Len(hp) : hp[k].id = id
HeapIdx(hp, id) == CHOOSE k \in 1..Len(hp) : hp[k].id = id
HeapSet(hp, id, obj) ==
    IF HeapHas(hp, id) THEN [hp EXCEPT ![HeapIdx(hp, id)] = obj]
    ELSE Append(hp, obj)

FieldHas(fields, f) == \E k \in 1..Len(fields) : fields[k].name = f
FieldIdx(fields, f) ==
    CHOOSE k \in 1..Len(fields) :
        fields[k].name = f /\ \A j \in 1..(k - 1) : fields[j].name # f

(***************************************************************************)
(* Expressions, as the shapes evaluateExpression tells apart:              *)
(*   num   a decimal literal            null  nullptr / NULL               *)
(*   chr   a character literal 'c'      var   a single identifier          *)
(*   idx   name[index], index a literal or an identifier                   *)
(*   bin   atom op atom, an atom being a literal or an identifier          *)
(*   tok   any other text of digits, identifiers and + - * / % ( ), given  *)
(*         as the tokens tokenize (lines 971-1018) makes of it; tokenize   *)
(*         skips every other character, '[' and ']' included              *)
(***************************************************************************)
ENum(n) == [e |-> "num", n |-> n]
ENull == [e |-> "null"]
EChr(c) == [e |-> "chr", s |-> c]
EVar(x) == [e |-> "var", x |-> x]
EIdx(x, ix) == [e |-> "idx", x |-> x, ix |-> ix]
EBin(l, op, r) == [e |-> "bin", l |-> l, op |-> op, r |-> r]
ETok(toks) == [e |-> "tok", toks |-> toks]

\* the tokens of tokenize: { type: "num" | "op" | "id", value }
TNum(n) == [type |-> "num", n |-> n, value |-> ""]
TOp(o) == [type |-> "op", n |-> 0, value |-> o]
TId(x) == [type |-> "id", n |-> 0, value |-> x]

\* typeof v === "number"
IsNumber(v) == v.t \in {"num", "nan"}

\* parsePrimary on one token: a number, or an identifier whose variable
\* holds a number; anything else is 0
parsePrimary(tok, vs) ==
    IF tok.e = "num" THEN Num(tok.n)
    ELSE IF MapHas(vs, tok.x) /\ IsNumber(MapGet(vs, tok.x).value)
         THEN MapGet(vs, tok.x).value
    ELSE Num(0)

\* parseAddSub / parseMulDiv on two operands that are numbers or NaN
parseBinary(op, l, r) ==
    IF op \in {"/", "%"} /\ r = Num(0) THEN Num(0)
    ELSE IF ~(IsNum(l) /\ IsNum(r)) THEN NaN
    ELSE CASE op = "+" -> Num(l.n + r.n)
           [] op = "-" -> Num(l.n - r.n)
           [] op = "*" -> Num(l.n * r.n)
           [] op = "/" -> Num(FloorDiv(l.n, r.n))
           [] op = "%" -> Num(JsRem(l.n, r.n))

\* -x on a number or NaN
Negate(x) == IF IsNum(x) THEN Num(-x.n) ELSE NaN

\* the recursive descent of lines 1023-1101 over a token list; each result
\* is the value and the tokens left
RECURSIVE parseAddSub(_, _)
RECURSIVE parseAddSubLoop(_, _, _)
RECURSIVE parseMulDiv(_, _)
RECURSIVE parseMulDivLoop(_, _, _)
RECURSIVE parsePrimaryTokens(_, _)
RECURSIVE parseMulDivStep(_, _, _, _)
RECURSIVE parseAddSubStep(_, _, _, _)

Parsed(v, rest) == [v |-> v, rest |-> rest]

\* lines 1064-1066: -primary
negated(p) == Parsed(Negate(p.v), p.rest)

\* lines 1076-1080: the ')' after a parenthesised expression is consumed
closeParen(r) ==
    Parsed(r.v, IF r.rest # <<>> /\ Head(r.rest) = TOp(")")
                THEN Tail(r.rest) ELSE r.rest)

\* parsePrimary, lines 1058-1101
parsePrimaryTokens(tokens, vs) ==
    IF tokens = <<>> THEN Parsed(Num(0), <<>>)
    ELSE IF Head(tokens) = TOp("-")
    THEN negated(parsePrimaryTokens(Tail(tokens), vs))
    ELSE IF Head(tokens) = TOp("+") THEN parsePrimaryTokens(Tail(tokens), vs)
    ELSE IF Head(tokens) = TOp("(") THEN closeParen(parseAddSub(Tail(tokens), vs))
    ELSE IF Head(tokens).type = "num"
    THEN Parsed(parsePrimary(ENum(Head(tokens).n), vs), Tail(tokens))
    ELSE IF Head(tokens).type = "id"
    THEN Parsed(parsePrimary(EVar(Head(tokens).value), vs), Tail(tokens))
    ELSE Parsed(Num(0), Tail(tokens))

\* lines 1044-1049: left = left op right, and on with the tokens right left
parseMulDivStep(left, op, right, vs) ==
    parseMulDivLoop(parseBinary(op, left, right.v), right.rest, vs)

\* the while loop of parseMulDiv, lines 1043-1050
parseMulDivLoop(left, tokens, vs) ==
    IF tokens # <<>> /\ Head(tokens) \in {TOp("*"), TOp("/"), TOp("%")}
    THEN parseMulDivStep(left, Head(tokens).value,
                         parsePrimaryTokens(Tail(tokens), vs), vs)
    ELSE Parsed(left, tokens)

\* line 1041 on: the loop starts from the first primary
parseMulDivFrom(left, vs) == parseMulDivLoop(left.v, left.rest, vs)

\* mutant of parseMulDiv: a term is a single primary, * / % are not
\* applied before + -
parseMulDivFlat(tokens, vs) == parsePrimaryTokens(tokens, vs)

parseMulDiv(tokens, vs) == parseMulDivFrom(parsePrimaryTokens(tokens, vs), vs)

\* lines 1027-1031: left = left op right, and on with the tokens right left
parseAddSubStep(left, op, right, vs) ==
    parseAddSubLoop(parseBinary(op, left, right.v), right.rest, vs)

\* the while loop of parseAddSub, lines 1026-1032
parseAddSubLoop(left, tokens, vs) ==
    IF tokens # <<>> /\ Head(tokens) \in {TOp("+"), TOp("-")}
    THEN parseAddSubStep(left, Head(tokens).value,
                         parseMulDiv(Tail(tokens), vs), vs)
    ELSE Parsed(left, tokens)

\* line 1024 on: the loop starts from the first term
parseAddSubFrom(left, vs) == parseAddSubLoop(left.v, left.rest, vs)

parseAddSub(tokens, vs) == parseAddSubFrom(parseMulDiv(tokens, vs), vs)

\* lines 956-966; the tokens parseAddSub leaves are dropped
evaluateArithmetic(ex, vs) ==
    IF ex.e = "tok" THEN parseAddSub(ex.toks, vs).v
    ELSE parseBinary(ex.op, parsePrimary(ex.l, vs), parsePrimary(ex.r, vs))

\* lines 849-867: name[index]
arrayAccess(ex, vs, arrs) ==
    IF MapHas(vs, ex.x) /\ IsArray(MapGet(vs, ex.x).value)
    THEN LET el == Elems(MapGet(vs, ex.x).value, arrs)
             index == IF ex.ix.e = "num" THEN Num(ex.ix.n)
                      ELSE IF MapHas(vs, ex.ix.x)
                           THEN MapGet(vs, ex.ix.x).value
                      ELSE Num(0)
             ixn == ToNumber(index, arrs, 2)
         IN  IF IsNum(index) /\ index.n >= 0 /\ index.n < Len(el)
             THEN el[index.n + 1]
             ELSE IF ~IsNum(index) /\ IsNum(ixn) /\ ixn.n >= 0 /\ ixn.n < Len(el)
                  THEN Undef      \* value[index] with a key that is no number
             ELSE Num(0)
    ELSE Num(0)

\* lines 870-884: the whole text is one pair of parentheses
isWrapped(toks) ==
    /\ Len(toks) >= 2
    /\ toks[1] = TOp("(") /\ toks[Len(toks)] = TOp(")")
    /\ \A k \in 1..(Len(toks) - 1) :
           Cardinality({j \in 1..k : toks[j] = TOp("(")})
               > Cardinality({j \in 1..k : toks[j] = TOp(")")})

\* the text between the parentheses, as the shape evaluateExpression meets
unwrap(toks) ==
    LET inner == SubSeq(toks, 2, Len(toks) - 1) IN
    IF Len(inner) = 1 /\ inner[1].type = "num" THEN ENum(inner[1].n)
    ELSE IF Len(inner) = 1 /\ inner[1].type = "id" THEN EVar(inner[1].value)
    ELSE ETok(inner)

RECURSIVE evaluateExpression(_, _, _)
evaluateExpression(ex, vs, arrs) ==
    CASE ex.e = "null" -> Str("nullptr")
      [] ex.e = "num" -> Num(ex.n)
      [] ex.e = "chr" -> Str(ex.s)
      [] ex.e = "var" ->
            IF MapHas(vs, ex.x) THEN MapGet(vs, ex.x).value ELSE Num(0)
      [] ex.e = "idx" ->
            IF ex.ix.e = "num" /\ ex.ix.n < 0
            THEN \* "a[-1]" is no array access: the tokens a, -, 1 remain
                 parseBinary("-", parsePrimary(EVar(ex.x), vs), Num(-ex.ix.n))
            ELSE arrayAccess(ex, vs, arrs)
      [] ex.e = "bin" -> evaluateArithmetic(ex, vs)
      [] ex.e = "tok" ->
            \* lines 886-892: text with a token in it is arithmetic, and what
            \* evaluateArithmetic returns for it is never null; the patterns
            \* of lines 894-951 are tried for text without any token only
            IF isWrapped(ex.toks)
            THEN evaluateExpression(unwrap(ex.toks), vs, arrs)
            ELSE evaluateArithmetic(ex, vs)

(***************************************************************************)
(* Conditions, as the shapes evaluateCondition tells apart:                *)
(*   mod   e % k == r, e % k != r (k, r decimal literals)                  *)
(*   cmp   l op r, op one of == != <= >= < >                               *)
(*   val   anything else: the truthiness of the expression                 *)
(***************************************************************************)
CMod(ex, k, op, r) == [c |-> "mod", ex |-> ex, k |-> k, op |-> op, r |-> r]
CCmp(l, op, r) == [c |-> "cmp", l |-> l, op |-> op, r |-> r]
CVal(ex) == [c |-> "val", ex |-> ex]

\* l === r: NaN equals nothing; objects are equal when they are the same
StrictEq(l, r) == l.t # "nan" /\ l = r

\* l < r, l <= r: numbers after conversion.  Two strings compare by their
\* characters, which the model does not carry: equal strings are told apart
\* from unequal ones only.
Relational(op, l, r, arrs) ==
    LET a == ToNumber(l, arrs, 2)
        b == ToNumber(r, arrs, 2)
    IN  IF IsString(l) /\ IsString(r) THEN l = r /\ op \in {"<=", ">="}
        ELSE IF ~(IsNum(a) /\ IsNum(b)) THEN FALSE
        ELSE CASE op = "<=" -> a.n <= b.n
               [] op = ">=" -> a.n >= b.n
               [] op = "<" -> a.n < b.n
               [] op = ">" -> a.n > b.n

evaluateCondition(cond, vs, arrs) ==
    CASE cond.c = "mod" ->
            LET value == ToNumber(evaluateExpression(cond.ex, vs, arrs), arrs, 2)
                rem == IF IsNum(value) /\ cond.k # 0
                       THEN Num(JsRem(value.n, cond.k)) ELSE NaN
            IN  IF cond.op = "==" THEN StrictEq(rem, Num(cond.r))
                ELSE ~StrictEq(rem, Num(cond.r))
      [] cond.c = "cmp" ->
            LET left == evaluateExpression(cond.l, vs, arrs)
                right == evaluateExpression(cond.r, vs, arrs)
            IN  CASE cond.op = "==" -> StrictEq(left, right)
                  [] cond.op = "!=" -> ~StrictEq(left, right)
                  [] OTHER -> Relational(cond.op, left, right, arrs)
      [] cond.c = "val" -> Truthy(evaluateExpression(cond.ex, vs, arrs))

(***************************************************************************)
(* The text of a condition, as evaluateCondition reads it: a sequence of   *)
(* lexemes, a name, a run of digits, or one character of an operator.  The *)
(* patterns are tried in the order of the source and the first that        *)
(* matches decides the shape.                                              *)
(***************************************************************************)
\* the characters of a comparison operator
OpLex(op) ==
    CASE op = "==" -> <<TOp("="), TOp("=")>>
      [] op = "!=" -> <<TOp("!"), TOp("=")>>
      [] op = "<=" -> <<TOp("<"), TOp("=")>>
      [] op = ">=" -> <<TOp(">"), TOp("=")>>
      [] op = "<" -> <<TOp("<")>>
      [] op = ">" -> <<TOp(">")>>

matchAt(text, k, pat) ==
    /\ k + Len(pat) - 1 <= Len(text)
    /\ \A j \in 1..Len(pat) : text[k + j - 1] = pat[j]

\* /^(.+?)\s*OP\s*(.+)$/: the leftmost OP with text on both sides, 0 if none
findOp(text, pat) ==
    LET ks == {k \in 2..Len(text) :
                   matchAt(text, k, pat) /\ k + Len(pat) <= Len(text)}
    IN  IF ks = {} THEN 0 ELSE CHOOSE k \in ks : \A m \in ks : k <= m

\* /^(.+?)\s*%\s*(\d+)\s*OP\s*(\d+)$/: where its '%' stands, 0 if no match
findMod(text, pat) ==
    LET k == Len(text) - Len(pat) - 2 IN
    IF /\ k >= 2
       /\ text[k] = TOp("%")
       /\ text[k + 1].type = "num"
       /\ matchAt(text, k + 2, pat)
       /\ text[Len(text)].type = "num"
    THEN k ELSE 0

\* tokenize, lines 971-1018: characters that are no arithmetic operator and
\* no parenthesis are skipped
tokenize(text) ==
    SelectSeq(text, LAMBDA l : l.type # "op"
                                \/ l.value \in {"+", "-", "*", "/", "%", "(", ")"})

\* the branch of evaluateExpression a piece of text takes: a number
\* (line 774), a name (line 808), or arithmetic on its tokens (line 886)
exprOf(text) ==
    IF Len(text) = 1 /\ text[1].type = "num" THEN ENum(text[1].n)
    ELSE IF Len(text) = 2 /\ text[1] = TOp("-") /\ text[2].type = "num"
         THEN ENum(-text[2].n)
    ELSE IF Len(text) = 1 /\ text[1].type = "id" THEN EVar(text[1].value)
    ELSE ETok(tokenize(text))

\* the comparison patterns of lines 464-509, in that order
ComparisonOrder == <<"==", "!=", "<=", ">=", "<", ">">>
\* mutant order: '<' and '>' are tried before '<=' and '>='
ComparisonOrderLtFirst == <<"==", "!=", "<", ">", "<=", ">=">>

RECURSIVE comparisonShape(_, _)
comparisonShape(text, order) ==
    IF order = <<>> THEN CVal(exprOf(text))
    ELSE LET op == Head(order)
             k == findOp(text, OpLex(op))
         IN  IF k # 0
             THEN CCmp(exprOf(SubSeq(text, 1, k - 1)), op,
                       exprOf(SubSeq(text, k + Len(OpLex(op)), Len(text))))
             ELSE comparisonShape(text, Tail(order))

shapeInOrder(text, order) ==
    LET eq == findMod(text, OpLex("=="))
        neq == findMod(text, OpLex("!="))
    IN  IF eq # 0
        THEN CMod(exprOf(SubSeq(text, 1, eq - 1)), text[eq + 1].n, "==",
                  text[Len(text)].n)
        ELSE IF neq # 0
        THEN CMod(exprOf(SubSeq(text, 1, neq - 1)), text[neq + 1].n, "!=",
                  text[Len(text)].n)
        ELSE comparisonShape(text, order)

\* mutant of conditionShape
conditionShapeLtFirst(text) == shapeInOrder(text, ComparisonOrderLtFirst)

\* lines 445-513: the shape evaluateCondition finds in the text
conditionShape(text) == shapeInOrder(text, ComparisonOrder)

(***************************************************************************)
(* Lines.  kind is the shape the line has for the engine; ob and cb count  *)
(* its '{' and '}' characters.                                             *)
(***************************************************************************)
Blank == [kind |-> "blank", ob |-> 0, cb |-> 0]
Pre == [kind |-> "pre", ob |-> 0, cb |-> 0]             \* #include ...
Comment == [kind |-> "comment", ob |-> 0, cb |-> 0]     \* // ...
MainLine(ob) == [kind |-> "main", ob |-> ob, cb |-> 0]  \* int main() {
Open == [kind |-> "open", ob |-> 1, cb |-> 0]           \* {
Close == [kind |-> "close", ob |-> 0, cb |-> 1]         \* }
Return == [kind |-> "return", ob |-> 0, cb |-> 0]       \* return 0;
Cout == [kind |-> "io", ob |-> 0, cb |-> 0]             \* cout << ...;
\* a line no statement shape matches, e.g. "int x;"
Other == [kind |-> "other", ob |-> 0, cb |-> 0]
\* for (int v = s; v op e; v++) {      s, e: ENum or EVar
For(v, s, op, e, inc, ob) ==
    [kind |-> "for", ob |-> ob, cb |-> 0, v |-> v, s |-> s, op |-> op,
     e |-> e, inc |-> inc]
\* while (cond) {
While(cond, ob) == [kind |-> "while", ob |-> ob, cb |-> 0, cond |-> cond]
If(cond, ob) == [kind |-> "if", ob |-> ob, cb |-> 0, cond |-> cond]
\* T name = expr;
Prim(type, name, ex) ==
    [kind |-> "prim", ob |-> 0, cb |-> 0, type |-> type, name |-> name,
     ex |-> ex]
\* T name[N] = {e1, e2, ...};
ArrDecl(type, name, exs) ==
    [kind |-> "arrdecl", ob |-> 1, cb |-> 1, type |-> type, name |-> name,
     exs |-> exs]
\* name[ix] = expr;      ix: ENum or EVar
ArrMod(name, ix, ex) ==
    [kind |-> "arrmod", ob |-> 0, cb |-> 0, name |-> name, ix |-> ix,
     ex |-> ex]
\* T* name = new U();
PtrNew(type, name, newType) ==
    [kind |-> "ptrnew", ob |-> 0, cb |-> 0, type |-> type, name |-> name,
     newType |-> newType]
\* T* name = &ref;
PtrRef(type, name, ref) ==
    [kind |-> "ptrref", ob |-> 0, cb |-> 0, type |-> type, name |-> name,
     ref |-> ref]
\* T* name = nullptr;
PtrNull(type, name) ==
    [kind |-> "ptrnull", ob |-> 0, cb |-> 0, type |-> type, name |-> name]
\* ptr->field = expr;     isNull: the text of expr holds nullptr or NULL
Member(ptr, field, ex) ==
    [kind |-> "member", ob |-> 0, cb |-> 0, name |-> ptr, field |-> field,
     ex |-> ex, isNull |-> (ex.e = "null")]
\* target = source->field;
PtrMove(target, source, field) ==
    [kind |-> "ptrmove", ob |-> 0, cb |-> 0, name |-> target,
     source |-> source, field |-> field]
\* name = expr;
Assign(name, ex) ==
    [kind |-> "assign", ob |-> 0, cb |-> 0, name |-> name, ex |-> ex]
\* name++; ++name; name--; --name;      op: "++" or "--"
IncDec(name, op) ==
    [kind |-> "incdec", ob |-> 0, cb |-> 0, name |-> name, op |-> op]
\* name op= expr;       op: + - * /
Compound(name, op, ex) ==
    [kind |-> "compound", ob |-> 0, cb |-> 0, name |-> name, op |-> op,
     ex |-> ex]
\* swap(a1[i1], a2[i2]);     i1, i2: ENum or EVar
Swap(a1, i1, a2, i2) ==
    [kind |-> "swap", ob |-> 0, cb |-> 0, name |-> a1, i1 |-> i1,
     a2 |-> a2, i2 |-> i2]

(***************************************************************************)
(* parseLine: the statement recogniser.  The result holds changed and the  *)
(* variable map, heap and array objects after the line.                    *)
(***************************************************************************)
Result(changed, vs, hp, arrs) ==
    [changed |-> changed, vs |-> vs, hp |-> hp, arrs |-> arrs]

\* value[index] and value[index] = v on a JavaScript array: reading past the
\* end gives undefined, writing past the end lengthens the array
ArrRead(el, index) == IF index < Len(el) THEN el[index + 1] ELSE Undef
ArrWrite(el, index, v) ==
    IF index < Len(el) THEN [el EXCEPT ![index + 1] = v]
    ELSE el \o [k \in 1..(index - Len(el)) |-> Undef] \o <<v>>

EvalAll(exs, vs, arrs) ==
    [k \in 1..Len(exs) |-> evaluateExpression(exs[k], vs, arrs)]

\* lines 528-541 (and 210-222)
primitiveDecl(line, vs, hp, arrs) ==
    Result(TRUE,
           MapSet(vs, line.name,
                  [name |-> line.name, type |-> TypeOf(line.type, FALSE, -1),
                   value |-> evaluateExpression(line.ex, vs, arrs),
                   visualType |-> "primitive", pointsTo |-> Undef]),
           hp, arrs)

\* lines 545-558 (and 225-237): value: [...values] is a new array object
arrayDecl(line, vs, hp, arrs) ==
    LET values == EvalAll(line.exs, vs, arrs) IN
    Result(TRUE,
           MapSet(vs, line.name,
                  [name |-> line.name,
                   type |-> TypeOf(line.type, FALSE, Len(values)),
                   value |-> ArrRef(Len(arrs) + 1),
                   visualType |-> "array", pointsTo |-> Undef]),
           hp, Append(arrs, values))

\* lines 562-577: no test of the index against the array's length
arrayMod(line, vs, hp, arrs) ==
    IF line.ix.e = "num" /\ line.ix.n >= 0 /\ MapHas(vs, line.name)
       /\ MapGet(vs, line.name).value.t = "arr"
    THEN LET r == MapGet(vs, line.name).value.n
             value == evaluateExpression(line.ex, vs, arrs)
         IN  Result(TRUE, vs, hp,
                    [arrs EXCEPT ![r] = ArrWrite(arrs[r], line.ix.n, value)])
    ELSE Result(FALSE, vs, hp, arrs)

\* lines 585-603
pointerNew(line, vs, hp, arrs, time) ==
    LET heapId == HeapIdOf(line.name, time) IN
    Result(TRUE,
           MapSet(vs, line.name,
                  [name |-> line.name, type |-> TypeOf(line.type, TRUE, -1),
                   value |-> heapId, visualType |-> "pointer",
                   pointsTo |-> heapId]),
           HeapSet(hp, heapId,
                   [id |-> heapId, type |-> line.newType, fields |-> <<>>]),
           arrs)

\* lines 604-613
pointerRef(line, vs, hp, arrs) ==
    Result(TRUE,
           MapSet(vs, line.name,
                  [name |-> line.name, type |-> TypeOf(line.type, TRUE, -1),
                   value |-> AddrOf(line.ref), visualType |-> "pointer",
                   pointsTo |-> VarIdOf(line.ref)]),
           hp, arrs)

\* lines 614-624
pointerNull(line, vs, hp, arrs) ==
    Result(TRUE,
           MapSet(vs, line.name,
                  [name |-> line.name, type |-> TypeOf(line.type, TRUE, -1),
                   value |-> Str("nullptr"), visualType |-> "pointer",
                   pointsTo |-> Null]),
           hp, arrs)

\* lines 630-660
memberAssign(line, vs, hp, arrs) ==
    IF MapHas(vs, line.name) /\ Truthy(MapGet(vs, line.name).pointsTo)
       /\ HeapHas(hp, MapGet(vs, line.name).pointsTo)
    THEN LET h == HeapIdx(hp, MapGet(vs, line.name).pointsTo)
             value == evaluateExpression(line.ex, vs, arrs)
             isPointerField == line.field \in {"next", "prev"} \/ line.isNull
             fields == hp[h].fields
         IN  IF FieldHas(fields, line.field)
             THEN Result(TRUE, vs,
                         [hp EXCEPT ![h].fields[FieldIdx(fields, line.field)].value
                                        = value],
                         arrs)
             ELSE Result(TRUE, vs,
                         [hp EXCEPT ![h].fields =
                             Append(fields,
                                    [name |-> line.field, value |-> value,
                                     visualType |-> IF isPointerField
                                                    THEN "pointer"
                                                    ELSE "primitive"])],
                         arrs)
    ELSE Result(FALSE, vs, hp, arrs)

\* lines 664-685
pointerReassign(line, vs, hp, arrs) ==
    IF MapHas(vs, line.source) /\ Truthy(MapGet(vs, line.source).pointsTo)
       /\ HeapHas(hp, MapGet(vs, line.source).pointsTo)
       /\ FieldHas(hp[HeapIdx(hp, MapGet(vs, line.source).pointsTo)].fields,
                   line.field)
       /\ MapHas(vs, line.name)
    THEN LET fields == hp[HeapIdx(hp, MapGet(vs, line.source).pointsTo)].fields
             field == fields[FieldIdx(fields, line.field)]
             t == MapIdx(vs, line.name)
         IN  Result(TRUE,
                    [vs EXCEPT ![t].pointsTo = field.value,
                               ![t].value = field.value],
                    hp, arrs)
    ELSE Result(FALSE, vs, hp, arrs)

\* mutant of reassign: an assignment to a name the map does not hold declares it
reassignDeclares(line, vs, hp, arrs) ==
    Result(TRUE,
           MapSet(vs, line.name,
                  [name |-> line.name, type |-> TypeOf("int", FALSE, -1),
                   value |-> evaluateExpression(line.ex, vs, arrs),
                   visualType |-> "primitive", pointsTo |-> Undef]),
           hp, arrs)

\* lines 689-701
reassign(line, vs, hp, arrs) ==
    IF MapHas(vs, line.name)
    THEN Result(TRUE,
                [vs EXCEPT ![MapIdx(vs, line.name)].value =
                    evaluateExpression(line.ex, vs, arrs)],
                hp, arrs)
    ELSE Result(FALSE, vs, hp, arrs)

\* lines 705-720: value++ and value-- convert the value to a number
incrDecr(line, vs, hp, arrs) ==
    IF MapHas(vs, line.name)
    THEN LET old == MapGet(vs, line.name).value
             one == IF line.op = "++" THEN Num(-1) ELSE Num(1)
         IN  Result(TRUE,
                    [vs EXCEPT ![MapIdx(vs, line.name)].value =
                        JsSub(old, one, arrs)],
                    hp, arrs)
    ELSE Result(FALSE, vs, hp, arrs)

\* lines 724-741.  A quotient by a value that converts to 0 without being
\* the number 0 (Infinity) is outside the values of the model: NaN.
compoundAssign(line, vs, hp, arrs) ==
    IF MapHas(vs, line.name)
    THEN LET old == MapGet(vs, line.name).value
             operand == evaluateExpression(line.ex, vs, arrs)
             a == ToNumber(old, arrs, 2)
             b == ToNumber(operand, arrs, 2)
             new == CASE line.op = "+" -> JsAdd(old, operand, arrs)
                      [] line.op = "-" -> JsSub(old, operand, arrs)
                      [] line.op = "*" -> JsMul(old, operand, arrs)
                      [] line.op = "/" ->
                            IF operand = Num(0) THEN Num(0)
                            ELSE IF IsNum(a) /\ IsNum(b) /\ b.n # 0
                                 THEN Num(FloorDiv(a.n, b.n))
                            ELSE NaN
         IN  Result(TRUE, [vs EXCEPT ![MapIdx(vs, line.name)].value = new],
                    hp, arrs)
    ELSE Result(FALSE, vs, hp, arrs)

\* lines 745-761: both indices are used on the first array
swapElems(line, vs, hp, arrs) ==
    IF line.i1.e = "num" /\ line.i1.n >= 0 /\ line.i2.e = "num"
       /\ line.i2.n >= 0 /\ MapHas(vs, line.name)
       /\ MapGet(vs, line.name).value.t = "arr"
    THEN LET r == MapGet(vs, line.name).value.n
             temp == ArrRead(arrs[r], line.i1.n)
             first == ArrWrite(arrs[r], line.i1.n, ArrRead(arrs[r], line.i2.n))
         IN  Result(TRUE, vs, hp,
                    [arrs EXCEPT ![r] = ArrWrite(first, line.i2.n, temp)])
    ELSE Result(FALSE, vs, hp, arrs)

parseLine(line, vs, hp, arrs, time) ==
    CASE line.kind = "prim" -> primitiveDecl(line, vs, hp, arrs)
      [] line.kind = "arrdecl" -> arrayDecl(line, vs, hp, arrs)
      [] line.kind = "arrmod" -> arrayMod(line, vs, hp, arrs)
      [] line.kind = "ptrnew" -> pointerNew(line, vs, hp, arrs, time)
      [] line.kind = "ptrref" -> pointerRef(line, vs, hp, arrs)
      [] line.kind = "ptrnull" -> pointerNull(line, vs, hp, arrs)
      [] line.kind = "member" -> memberAssign(line, vs, hp, arrs)
      [] line.kind = "ptrmove" -> pointerReassign(line, vs, hp, arrs)
      [] line.kind = "assign" -> reassign(line, vs, hp, arrs)
      [] line.kind = "incdec" -> incrDecr(line, vs, hp, arrs)
      [] line.kind = "compound" -> compoundAssign(line, vs, hp, arrs)
      [] line.kind = "swap" -> swapElems(line, vs, hp, arrs)
      [] OTHER -> Result(FALSE, vs, hp, arrs)

\* lines 206-238: the first pass knows primitive and array declarations only
parseLineForVars(line, vs, hp, arrs) ==
    CASE line.kind = "prim" -> primitiveDecl(line, vs, hp, arrs)
      [] line.kind = "arrdecl" -> arrayDecl(line, vs, hp, arrs)
      [] OTHER -> Result(FALSE, vs, hp, arrs)

(***************************************************************************)
(* createState: the snapshot.  An array value is copied one level deep     *)
(* ([...v.value]); a heap object's fields are copied one by one            *)
(* ({...f}), each copy keeping the value the field holds.  stackFrames     *)
(* repeats step, line and the variables of the snapshot and is left out.   *)
(***************************************************************************)
copyVariable(v, arrs) ==
    [v EXCEPT !.value = IF v.value.t = "arr" THEN OwnArr(arrs[v.value.n])
                        ELSE v.value]

copyHeapObject(h, arrs) ==
    [h EXCEPT !.fields = [k \in 1..Len(h.fields) |-> h.fields[k]]]

createState(step, line, sourceCode, vs, hp, arrs) ==
    [step |-> step,
     currentLine |-> line,
     sourceCode |-> sourceCode,
     variables |-> [k \in 1..Len(vs) |-> copyVariable(vs[k], arrs)],
     heap |-> [k \in 1..Len(hp) |-> copyHeapObject(hp[k], arrs)]]

(***************************************************************************)
(* The substitution of the induction variable in a body line (lines        *)
(* 383-397): every occurrence of the identifier becomes the digits of the  *)
(* counter's value.                                                        *)
(***************************************************************************)
\* `${loopVar.value}`; a value that is no number prints as no digits
Digits(val) == IF IsNum(val) THEN ToString(val.n) ELSE "NaN"

substName(name, v, val) == IF name = v THEN Digits(val) ELSE name

substToken(tok, v, val) ==
    IF tok.e = "var" /\ tok.x = v
    THEN (IF IsNum(val) THEN ENum(val.n) ELSE EVar(Digits(val)))
    ELSE tok

\* the tokens of a text in which the identifier became the counter's digits
RECURSIVE substTokens(_, _, _)
substTokens(toks, v, val) ==
    IF toks = <<>> THEN <<>>
    ELSE (IF Head(toks) = TId(v)
          THEN (IF ~IsNum(val) THEN <<TId(Digits(val))>>
                ELSE IF val.n < 0 THEN <<TOp("-"), TNum(-val.n)>>
                ELSE <<TNum(val.n)>>)
          ELSE <<Head(toks)>>)
         \o substTokens(Tail(toks), v, val)

substExpr(ex, v, val) ==
    CASE ex.e = "var" -> substToken(ex, v, val)
      [] ex.e = "idx" ->
            EIdx(substName(ex.x, v, val), substToken(ex.ix, v, val))
      [] ex.e = "bin" ->
            EBin(substToken(ex.l, v, val), ex.op, substToken(ex.r, v, val))
      [] ex.e = "tok" -> ETok(substTokens(ex.toks, v, val))
      [] OTHER -> ex

substCond(cond, v, val) ==
    CASE cond.c = "mod" -> [cond EXCEPT !.ex = substExpr(cond.ex, v, val)]
      [] cond.c = "cmp" -> [cond EXCEPT !.l = substExpr(cond.l, v, val),
                                        !.r = substExpr(cond.r, v, val)]
      [] cond.c = "val" -> [cond EXCEPT !.ex = substExpr(cond.ex, v, val)]

substitute(line, v, val) ==
    CASE line.kind = "if" -> [line EXCEPT !.cond = substCond(line.cond, v, val)]
      [] line.kind \in {"prim", "assign", "compound"} ->
            [line EXCEPT !.name = substName(line.name, v, val),
                         !.ex = substExpr(line.ex, v, val)]
      [] line.kind = "arrdecl" ->
            [line EXCEPT !.name = substName(line.name, v, val),
                         !.exs = [k \in 1..Len(line.exs) |->
                                     substExpr(line.exs[k], v, val)]]
      [] line.kind = "arrmod" ->
            [line EXCEPT !.name = substName(line.name, v, val),
                         !.ix = substToken(line.ix, v, val),
                         !.ex = substExpr(line.ex, v, val)]
      [] line.kind = "ptrnew" ->
            [line EXCEPT !.name = substName(line.name, v, val)]
      [] line.kind = "ptrref" ->
            [line EXCEPT !.name = substName(line.name, v, val),
                         !.ref = substName(line.ref, v, val)]
      [] line.kind = "ptrnull" ->
            [line EXCEPT !.name = substName(line.name, v, val)]
      [] line.kind = "member" ->
            [line EXCEPT !.name = substName(line.name, v, val),
                         !.field = substName(line.field, v, val),
                         !.ex = substExpr(line.ex, v, val)]
      [] line.kind = "ptrmove" ->
            [line EXCEPT !.name = substName(line.name, v, val),
                         !.source = substName(line.source, v, val),
                         !.field = substName(line.field, v, val)]
      [] line.kind = "incdec" ->
            [line EXCEPT !.name = substName(line.name, v, val)]
      [] line.kind = "swap" ->
            [line EXCEPT !.name = substName(line.name, v, val),
                         !.i1 = substToken(line.i1, v, val),
                         !.a2 = substName(line.a2, v, val),
                         !.i2 = substToken(line.i2, v, val)]
      [] OTHER -> line

(***************************************************************************)
(* identifyLoops.                                                          *)
(***************************************************************************)
MaxIterations == 50       \* "Limit iterations for safety"
WhileIterations == 10     \* "Default limit for while loops"
DefaultEnd == 10          \* "Default to 10 if not found"

\* lines 258-270: the line on which the braces opened from line i on are
\* closed again; line i itself when no later line closes them
RECURSIVE findLoopEnd(_, _, _, _)
findLoopEnd(lines, start, j, braceCount) ==
    IF j > Len(lines) THEN start
    ELSE LET count == braceCount + lines[j].ob - lines[j].cb IN
         IF count = 0 /\ j > start THEN j
         ELSE findLoopEnd(lines, start, j + 1, count)

\* lines 276-291: a bound is a decimal literal or the value of a variable
resolveBound(tok, vs, default) ==
    IF tok.e = "num" THEN Num(tok.n)
    ELSE IF MapHas(vs, tok.x) THEN MapGet(vs, tok.x).value
    ELSE Num(default)

\* lines 294-305
iterationCount(op, start, end, arrs) ==
    CASE op = "<" -> JsSub(end, start, arrs)
      [] op = "<=" -> JsAdd(JsSub(end, start, arrs), Num(1), arrs)
      [] op = ">" -> JsSub(start, end, arrs)
      [] op = ">=" -> JsAdd(JsSub(start, end, arrs), Num(1), arrs)
      [] op = "!=" -> MathAbs(JsSub(end, start, arrs))
      [] OTHER -> Num(0)

\* line 308 (and 170): Math.min(Math.max(iterations, 0), 50)
clampIterations(n) == MathMin(MathMax(n, 0), MaxIterations)

\* mutant of whileCount: a loop whose condition is false is not unrolled
whileCountWhileTrue(line, vs, arrs) ==
    IF evaluateCondition(line.cond, vs, arrs) THEN Num(WhileIterations)
    ELSE Num(0)

\* line 328: the passes of a while loop, whatever its header says
whileCount(line, vs, arrs) == Num(WhileIterations)

loopInfoOf(lines, k, vs, arrs) ==
    IF lines[k].kind = "for"
    THEN LET start == resolveBound(lines[k].s, vs, 0)
             end == resolveBound(lines[k].e, vs, DefaultEnd)
         IN  [type |-> "for", start |-> k,
              end |-> findLoopEnd(lines, k, k, 0),
              varName |-> lines[k].v, startVal |-> start, endVal |-> end,
              endValStr |-> lines[k].e, operator |-> lines[k].op,
              increment |-> lines[k].inc,
              iterations |->
                  clampIterations(iterationCount(lines[k].op, start, end, arrs))]
    ELSE [type |-> "while", start |-> k,
          end |-> findLoopEnd(lines, k, k, 0),
          varName |-> "", startVal |-> Undef, endVal |-> Undef,
          endValStr |-> ENull, operator |-> "", increment |-> "",
          iterations |-> whileCount(lines[k], vs, arrs)]

RECURSIVE identifyLoopsFrom(_, _, _, _)
identifyLoopsFrom(lines, k, vs, arrs) ==
    IF k > Len(lines) THEN <<>>
    ELSE IF lines[k].kind \in {"for", "while"}
         THEN <<loopInfoOf(lines, k, vs, arrs)>>
              \o identifyLoopsFrom(lines, k + 1, vs, arrs)
    ELSE identifyLoopsFrom(lines, k + 1, vs, arrs)

identifyLoops(lines, vs, arrs) == identifyLoopsFrom(lines, 1, vs, arrs)

(***************************************************************************)
(* The sources the client submits.                                         *)
(***************************************************************************)
\* frontend/src/Pages/Visualizer.jsx, CODE_TEMPLATES.cpp
SrcTemplate ==
    <<Pre, Other, Blank, MainLine(1),
      Prim("int", "x", ENum(10)),
      Prim("int", "y", ENum(20)),
      Prim("int", "sum", EBin(EVar("x"), "+", EVar("y"))),
      Blank,
      ArrDecl("int", "arr", <<ENum(1), ENum(2), ENum(3), ENum(4), ENum(5)>>),
      Blank, Cout, Return, Close>>

\* frontend/src/Pages/Visualizer.jsx, CODE_TEMPLATES.linkedlist
SrcLinkedList ==
    <<Pre, Other, Blank,
      [Other EXCEPT !.ob = 1], Other, Other, [Other EXCEPT !.cb = 1], Blank,
      MainLine(1),
      PtrNew("Node", "head", "Node"),
      Member("head", "data", ENum(10)),
      Blank,
      PtrNew("Node", "second", "Node"),
      Member("second", "data", ENum(20)),
      Member("head", "next", EVar("second")),
      Blank,
      PtrNew("Node", "third", "Node"),
      Member("third", "data", ENum(30)),
      Member("second", "next", EVar("third")),
      Member("third", "next", ENull),
      Blank, Comment, Other,
      While(CCmp(EVar("current"), "!=", ENull), 1), Cout,
      PtrMove("current", "current", "next"), Close,
      Blank, Return, Close>>

\* a program without any statement the engine knows
SrcNothing == <<Pre, Prim("int", "g", ENum(1)), MainLine(1), Return, Close>>

\* int x = 1; x = 7;
SrcTwo ==
    <<MainLine(1), Prim("int", "x", ENum(1)), Assign("x", ENum(7)), Close>>

\* int n = 2; int arr[2] = {0, 0}; for (int i = 0; i < n; i++) { arr[i] = i; }
SrcFill ==
    <<MainLine(1),
      Prim("int", "n", ENum(2)),
      ArrDecl("int", "arr", <<ENum(0), ENum(0)>>),
      For("i", ENum(0), "<", EVar("n"), "++", 1),
      ArrMod("arr", EVar("i"), EVar("i")),
      Close,
      Return, Close>>

\* int n = 70; int c = 0; n -= 5;
\* for (int i = 0; i < n; i++) { c++; }  for (int j = 3; j <= 90; j++) { c--; }
SrcLong ==
    <<MainLine(1),
      Prim("int", "n", ENum(70)),
      Prim("int", "c", ENum(0)),
      Compound("n", "-", ENum(5)),
      For("i", ENum(0), "<", EVar("n"), "++", 1),
      IncDec("c", "++"),
      Close,
      For("j", ENum(3), "<=", ENum(90), "++", 1),
      Open,
      IncDec("c", "--"),
      Close,
      Return, Close>>

\* int count = 0; int last = 0;
\* for (int i = 0; i < 3; i++) { if (i % 2 == 0) { count = count + 1; } last = i; }
SrcBranch ==
    <<MainLine(1),
      Prim("int", "count", ENum(0)),
      Prim("int", "last", ENum(0)),
      For("i", ENum(0), "<", ENum(3), "++", 1),
      If(CMod(EVar("i"), 2, "==", 0), 1),
      Assign("count", EBin(EVar("count"), "+", ENum(1))),
      Close,
      Assign("last", EVar("i")),
      Close,
      Close>>

\* a list walked to its end
SrcWalk ==
    <<MainLine(1),
      PtrNew("Node", "head", "Node"),
      Member("head", "data", ENum(10)),
      PtrNew("Node", "tail", "Node"),
      Member("head", "next", EVar("tail")),
      Member("tail", "next", ENull),
      PtrNull("Node", "cur"),
      Assign("cur", EVar("head")),
      PtrMove("cur", "head", "next"),
      PtrMove("cur", "cur", "next"),
      Close>>

\* int x; int* p = &x; int y = 3; int* q = &y;
SrcAddress ==
    <<MainLine(1),
      Other,
      PtrRef("int", "p", "x"),
      Prim("int", "y", ENum(3)),
      PtrRef("int", "q", "y"),
      Close>>

\* struct Node { int* data; };
\* int a[2] = {1, 2}; Node* p = new Node(); p->data = a; a[0] = 9;
SrcShared ==
    <<[Other EXCEPT !.ob = 1, !.cb = 1], MainLine(1),
      ArrDecl("int", "a", <<ENum(1), ENum(2)>>),
      PtrNew("Node", "p", "Node"),
      Member("p", "data", EVar("a")),
      ArrMod("a", ENum(0), ENum(9)),
      Close>>

\* int arr[2] = {1, 2}; arr[1] = 5; swap(arr[0], arr[1]); arr[3] = 9;
\* swap(arr[0], arr[5]);
SrcBeyond ==
    <<MainLine(1),
      ArrDecl("int", "arr", <<ENum(1), ENum(2)>>),
      ArrMod("arr", ENum(1), ENum(5)),
      Swap("arr", ENum(0), "arr", ENum(1)),
      ArrMod("arr", ENum(3), ENum(9)),
      Swap("arr", ENum(0), "arr", ENum(5)),
      Close>>

\* char c = 'a'; int x = 0; for (int i = 0; i < c; i++) { x++; }
SrcCharBound ==
    <<MainLine(1),
      Prim("char", "c", EChr("a")),
      Prim("int", "x", ENum(0)),
      For("i", ENum(0), "<", EVar("c"), "++", 1),
      IncDec("x", "++"),
      Close,
      Close>>

\* the whole program on the line of main:
\* int main(){ int x=10; int y=20; int sum=x+y; return 0; }
SrcOneLine == <<[MainLine(1) EXCEPT !.cb = 1]>>

\* several statements on a line: the first shape of parseLine that matches
\* the line is the pointer declaration, which returns
\*   struct Node{int data; Node* next;};
\*   int main(){
\*     Node* head=new Node(); head->data=10;
\*     Node* second=new Node(); second->data=20; head->next=second;
\*     Node* third=new Node(); third->data=30; second->next=third; third->next=nullptr;
\*   }
SrcThreeNodes ==
    <<[Other EXCEPT !.ob = 1, !.cb = 1], MainLine(1),
      PtrNew("Node", "head", "Node"),
      PtrNew("Node", "second", "Node"),
      PtrNew("Node", "third", "Node"),
      Close>>

\* int arr[5] = {1, 2, 3, 4, 5};
\* for (int i = 0; i < 5; i++) {
\*     arr[i] = arr[i] * 2;
\* }
SrcDouble ==
    <<MainLine(1),
      ArrDecl("int", "arr", <<ENum(1), ENum(2), ENum(3), ENum(4), ENum(5)>>),
      For("i", ENum(0), "<", ENum(5), "++", 1),
      ArrMod("arr", EVar("i"),
             ETok(<<TId("arr"), TId("i"), TOp("*"), TNum(2)>>)),
      Close,
      Close>>

\* int n = 3; int c = 0;
\* for (int i = 0; i <= n; i++) {
\*     c++;
\* }
SrcInclusive ==
    <<MainLine(1),
      Prim("int", "n", ENum(3)),
      Prim("int", "c", ENum(0)),
      For("i", ENum(0), "<=", EVar("n"), "++", 1),
      IncDec("c", "++"),
      Close,
      Close>>

\* int s = 1; int c = 0; s = 4;
\* for (int i = s; i < 6; i++) {
\*     c = i;
\* }
SrcLateStart ==
    <<MainLine(1),
      Prim("int", "s", ENum(1)),
      Prim("int", "c", ENum(0)),
      Assign("s", ENum(4)),
      For("i", EVar("s"), "<", ENum(6), "++", 1),
      Assign("c", EVar("i")),
      Close,
      Close>>

\* int c = 5;
\* while (c < 3) {
\*     cout << c;
\*     c++;
\* }
SrcCount ==
    <<MainLine(1),
      Prim("int", "c", ENum(5)),
      While(CCmp(EVar("c"), "<", ENum(3)), 1),
      Cout,
      IncDec("c", "++"),
      Close,
      Close>>

\* int x = -7; x /= 2; int y = -7 / 2; int z = 7 / 2;
SrcQuotient ==
    <<MainLine(1),
      Prim("int", "x", ENum(-7)),
      Compound("x", "/", ENum(2)),
      Prim("int", "y", ETok(<<TOp("-"), TNum(7), TOp("/"), TNum(2)>>)),
      Prim("int", "z", ETok(<<TNum(7), TOp("/"), TNum(2)>>)),
      Close>>

\* int g = 5;
\* int main() {
\*     int x = 1;
\* }
\* void helper() {
\*     int y = 2;
\* }
SrcAfterMain ==
    <<Prim("int", "g", ENum(5)),
      MainLine(1),
      Prim("int", "x", ENum(1)),
      Close,
      [Other EXCEPT !.ob = 1],
      Prim("int", "y", ENum(2)),
      Close>>

\* for (int i = 0; i < 2; i++) {
\*     Node* p = new Node();
\*     p->data = 7;
\* }
SrcAlloc ==
    <<MainLine(1),
      For("i", ENum(0), "<", ENum(2), "++", 1),
      PtrNew("Node", "p", "Node"),
      Member("p", "data", ENum(7)),
      Close,
      Close>>

\* int x = 1;  int* n = nullptr;  Node* h = new Node();
\* y = 2;  x[0] = 3;  n->data = 4;  q->data = 4;  x = n->next;  x = h->next;
\* y++;  y += 1;  swap(x[0], x[1]);  h;  x = 5;
SrcMissing ==
    <<MainLine(1),
      Prim("int", "x", ENum(1)),
      PtrNull("int", "n"),
      PtrNew("Node", "h", "Node"),
      Assign("y", ENum(2)),
      ArrMod("x", ENum(0), ENum(3)),
      Member("n", "data", ENum(4)),
      Member("q", "data", ENum(4)),
      PtrMove("x", "n", "next"),
      PtrMove("x", "h", "next"),
      IncDec("y", "++"),
      Compound("y", "+", ENum(1)),
      Swap("x", ENum(0), "x", ENum(1)),
      Other,
      Assign("x", ENum(5)),
      Close>>

\* int last = 0;
\* for (int i = 3; i > 0; i--) {
\*     last = i;
\* }
\* for (int k = 0; k < 4; k+=2) {
\*     last = k;
\* }
SrcDown ==
    <<MainLine(1),
      Prim("int", "last", ENum(0)),
      For("i", ENum(3), ">", ENum(0), "--", 1),
      Assign("last", EVar("i")),
      Close,
      For("k", ENum(0), "<", ENum(4), "+=2", 1),
      Assign("last", EVar("k")),
      Close,
      Close>>

\* int count = 0;
\* for (int i = 0; i < 2; i++) {
\*     for (int j = 0; j < 3; j++) {
\*         count++;
\*     }
\* }
SrcNested ==
    <<MainLine(1),
      Prim("int", "count", ENum(0)),
      For("i", ENum(0), "<", ENum(2), "++", 1),
      For("j", ENum(0), "<", ENum(3), "++", 1),
      IncDec("count", "++"),
      Close,
      Close,
      Close>>

\* Node* p = new Node();
\* Node* q = nullptr;
\* q = p;
\* p = nullptr;
SrcRepoint ==
    <<MainLine(1),
      PtrNew("Node", "p", "Node"),
      PtrNull("Node", "q"),
      Assign("q", EVar("p")),
      Assign("p", ENull),
      Close>>

Sources ==
    <<SrcNothing, SrcTwo, SrcFill, SrcTemplate, SrcLinkedList, SrcLong,
      SrcBranch, SrcWalk, SrcAddress, SrcShared, SrcBeyond, SrcCharBound,
      SrcOneLine, SrcThreeNodes, SrcDouble, SrcInclusive, SrcLateStart,
      SrcCount,
      SrcQuotient,
      SrcAfterMain,
      SrcAlloc,
      SrcMissing,
      SrcDown,
      SrcNested,
      SrcRepoint>>

\* the sessions started on a source
SessionsOf(src) == {id \in DOMAIN sessions : Sources[sessions[id].code] = src}

\* the sources of the suite with several sessions: the first two
FacadeSources == {1, 2}
SourcesOf(s) == IF s = "facade" THEN FacadeSources ELSE 1..Len(Sources)

(***************************************************************************)
(* The state after construction, and the values of simulateExecution's     *)
(* locals while no startSession is running.                                *)
(***************************************************************************)
NoLoop == [li |-> 0, iter |-> 0, pos |-> 0, skipUntilBrace |-> 0]
\* no loop is being unrolled
NoLoopInfo ==
    [type |-> "none", start |-> 0, end |-> 0, varName |-> "",
     startVal |-> Undef, endVal |-> Undef, endValStr |-> ENull,
     operator |-> "", increment |-> "", iterations |-> Num(0)]
NoState ==
    [step |-> -1, currentLine |-> 0, sourceCode |-> "", variables |-> <<>>,
     heap |-> <<>>]
\* a result: the keys a request does not set are false, undefined, -1 or
\* NoState
Response(op, id, success, error) ==
    [op |-> op, id |-> id, success |-> success, error |-> error,
     state |-> NoState, hasState |-> FALSE, step |-> Undef, totalSteps |-> -1,
     atEnd |-> FALSE, atStart |-> FALSE]

NoSession == [states |-> <<>>, currentStep |-> 0, arrays |-> <<>>, code |-> 0]

\* nothing has been handed to an evaluator
NoQuery == [kind |-> "none"]
NoAnswer == [done |-> FALSE, value |-> Undef, truth |-> FALSE]

EngineIdle ==
    /\ pc = "idle" /\ code = 0 /\ i = 0 /\ inMain = FALSE
    /\ variables = <<>> /\ heap = <<>> /\ arrays = <<>> /\ now = 0
    /\ states = <<>> /\ stepCount = 0 /\ loopRanges = <<>>
    /\ loop = NoLoop /\ loopStates = <<>>

Init ==
    /\ sessions = [k \in {} |-> NoSession]
    /\ fwd = [k \in {} |-> 0]
    /\ failed = {}
    /\ ended = {}
    /\ query = NoQuery
    /\ answer = NoAnswer
    /\ nextId = 0
    /\ suite \in {"engine", "facade"}
    /\ budget = IF suite = "facade" THEN MaxStarts ELSE 1
    /\ resp = Response("none", 0, FALSE, "")
    /\ EngineIdle

Lines == Sources[code]

\* Date.now() when a line is run: the clock may have advanced
Times == {t \in {now, now + 1} : t <= MaxClock}

(***************************************************************************)
(* startSession, lines 28-45: a fresh id, then the compiler's verdict,     *)
(* which is the environment's.  now counts from the call.                  *)
(***************************************************************************)
\* mutant of compilationError: the failure is reported as an internal one
compilationErrorAsDebugError(id) == Response("start", id, FALSE, "Debug Error")

\* lines 38-44: the result of a start the compiler rejected
compilationError(id) == Response("start", id, FALSE, "Compilation Error")

StartSession(src, compiles) ==
    /\ pc = "idle"
    /\ budget > 0
    /\ budget' = budget - 1
    /\ nextId' = nextId + 1
    /\ IF compiles
       THEN /\ pc' = "passA"
            /\ code' = src
            /\ i' = 1
            /\ UNCHANGED <<resp, failed, inMain, variables, heap, arrays, now,
                           states, stepCount, loopRanges, loop, loopStates>>
       ELSE /\ resp' = compilationError(nextId + 1)
            /\ failed' = failed \cup {nextId + 1}
            /\ UNCHANGED engineVars
    /\ UNCHANGED <<sessions, suite, fwd, ended, query, answer>>

(***************************************************************************)
(* simulateExecution, first pass (lines 109-130), one line per step.       *)
(***************************************************************************)
FirstPass ==
    /\ pc = "passA"
    /\ IF i > Len(Lines) \/ (inMain /\ Lines[i].kind \in {"for", "while"})
       THEN /\ pc' = "passB"
            /\ UNCHANGED <<i, inMain, variables, heap, arrays>>
       ELSE IF Lines[i].kind \in {"pre", "blank"}
       THEN /\ i' = i + 1
            /\ UNCHANGED <<pc, inMain, variables, heap, arrays>>
       ELSE IF Lines[i].kind = "main"
       THEN /\ i' = i + 1
            /\ inMain' = TRUE
            /\ UNCHANGED <<pc, variables, heap, arrays>>
       ELSE IF ~inMain
       THEN /\ i' = i + 1
            /\ UNCHANGED <<pc, inMain, variables, heap, arrays>>
       ELSE LET r == parseLineForVars(Lines[i], variables, heap, arrays) IN
            /\ i' = i + 1
            /\ variables' = r.vs
            /\ heap' = r.hp
            /\ arrays' = r.arrs
            /\ UNCHANGED <<pc, inMain>>
    /\ UNCHANGED <<code, now, states, stepCount, loopRanges, loop, loopStates>>
    /\ UNCHANGED facadeVars

\* second pass (lines 133-136)
SecondPass ==
    /\ pc = "passB"
    /\ loopRanges' = identifyLoops(Lines, variables, arrays)
    /\ inMain' = FALSE
    /\ i' = 1
    /\ pc' = "passC"
    /\ UNCHANGED <<code, variables, heap, arrays, now, states, stepCount, loop,
                   loopStates>>
    /\ UNCHANGED facadeVars

(***************************************************************************)
(* third pass (lines 139-192), one line per step.                          *)
(***************************************************************************)
\* loopRanges.find(l => lineNum >= l.start && lineNum <= l.end): 0 if none
loopAt(ranges, lineNum) ==
    IF \E k \in 1..Len(ranges) :
           lineNum >= ranges[k].start /\ lineNum <= ranges[k].end
    THEN CHOOSE k \in 1..Len(ranges) :
           /\ lineNum >= ranges[k].start /\ lineNum <= ranges[k].end
           /\ \A j \in 1..(k - 1) :
                  ~(lineNum >= ranges[j].start /\ lineNum <= ranges[j].end)
    ELSE 0

\* lines 165-172: the end bound named by an identifier is read again; the
\* count is end - start whatever the operator
reResolve(info, vs, arrs) ==
    IF info.type = "for" /\ info.endValStr.e = "var"
       /\ MapHas(vs, info.endValStr.x)
    THEN LET endVal == MapGet(vs, info.endValStr.x).value IN
         [info EXCEPT !.endVal = endVal,
                      !.iterations =
                          clampIterations(JsSub(endVal, info.startVal, arrs))]
    ELSE info

\* lines 346-354: the induction variable is declared with the start value
declareLoopVar(info, vs) ==
    IF info.type = "for"
    THEN MapSet(vs, info.varName,
                [name |-> info.varName, type |-> TypeOf("int", FALSE, -1),
                 value |-> info.startVal, visualType |-> "primitive",
                 pointsTo |-> Undef])
    ELSE vs

ThirdPass ==
    /\ pc = "passC"
    /\ i <= Len(Lines)
    /\ LET line == Lines[i]
           li == loopAt(loopRanges, i)
       IN
       IF line.kind \in {"blank", "pre", "comment"}
       THEN /\ i' = i + 1
            /\ UNCHANGED <<pc, inMain, variables, heap, arrays, now, states,
                           stepCount, loopRanges, loop>>
       ELSE IF line.kind = "main"
       THEN /\ i' = i + 1
            /\ inMain' = TRUE
            /\ UNCHANGED <<pc, variables, heap, arrays, now, states,
                           stepCount, loopRanges, loop>>
       ELSE IF ~inMain \/ line.kind \in {"open", "close", "return", "io"}
       THEN /\ i' = i + 1
            /\ UNCHANGED <<pc, inMain, variables, heap, arrays, now, states,
                           stepCount, loopRanges, loop>>
       ELSE IF li # 0 /\ i = loopRanges[li].start
       THEN LET info == reResolve(loopRanges[li], variables, arrays) IN
            /\ loopRanges' = [loopRanges EXCEPT ![li] = info]
            /\ variables' = declareLoopVar(info, variables)
            /\ loop' = [li |-> li, iter |-> 0, pos |-> 0, skipUntilBrace |-> 0]
            /\ pc' = "loop"
            /\ UNCHANGED <<i, inMain, heap, arrays, now, states, stepCount>>
       ELSE IF li # 0
       THEN /\ i' = i + 1
            /\ UNCHANGED <<pc, inMain, variables, heap, arrays, now, states,
                           stepCount, loopRanges, loop>>
       ELSE \E time \in IF line.kind = "ptrnew" THEN Times ELSE {now} :
            LET r == parseLine(line, variables, heap, arrays, time) IN
            /\ i' = i + 1
            /\ now' = time
            /\ variables' = r.vs
            /\ heap' = r.hp
            /\ arrays' = r.arrs
            /\ IF r.changed
               THEN /\ stepCount' = stepCount + 1
                    /\ states' = Append(states,
                                        createState(stepCount' - 1, i, line.kind,
                                                    r.vs, r.hp, r.arrs))
               ELSE UNCHANGED <<states, stepCount>>
            /\ UNCHANGED <<pc, inMain, loopRanges, loop>>
    /\ UNCHANGED <<code, loopStates>>
    /\ UNCHANGED facadeVars

(***************************************************************************)
(* simulateLoop (lines 340-435): the head of an iteration, then one body   *)
(* line per step.                                                          *)
(***************************************************************************)
\* lines 366-373: the numbers of the lines start+1 .. end-1 that are not
\* empty, a lone brace, or a loop header
RECURSIVE bodyLinesFrom(_, _, _)
bodyLinesFrom(lines, k, end) ==
    IF k >= end \/ k > Len(lines) THEN <<>>
    ELSE IF lines[k].kind \in {"blank", "open", "close", "for", "while"}
         THEN bodyLinesFrom(lines, k + 1, end)
    ELSE <<k>> \o bodyLinesFrom(lines, k + 1, end)

bodyLines(lines, info) == bodyLinesFrom(lines, info.start + 1, info.end)

\* lines 358-363: the counter is start + iter whatever the header's step
updateLoopVar(info, iter, vs, arrs) ==
    IF info.type = "for" /\ MapHas(vs, info.varName)
    THEN [vs EXCEPT ![MapIdx(vs, info.varName)].value =
             JsAdd(info.startVal, Num(iter), arrs)]
    ELSE vs

\* mutant of loopStepNum: the steps of a loop counted from 0
loopStepNumLocal(baseStep, emitted) == Len(emitted)

\* the step number of a snapshot emitted in a loop (line 427)
loopStepNum(baseStep, emitted) == baseStep + Len(emitted)

LoopIteration ==
    /\ pc = "loop"
    /\ loop.pos = 0
    /\ LET info == loopRanges[loop.li] IN
       IF JsLess(Num(loop.iter), info.iterations, arrays)
       THEN /\ variables' = updateLoopVar(info, loop.iter, variables, arrays)
            /\ loop' = [loop EXCEPT !.pos = 1, !.skipUntilBrace = 0]
            /\ UNCHANGED <<pc, i, states, stepCount, loopStates>>
       ELSE \* lines 176-179
            /\ states' = states \o loopStates
            /\ stepCount' = stepCount + Len(loopStates)
            /\ i' = info.end + 1
            /\ pc' = "passC"
            /\ loop' = NoLoop
            /\ loopStates' = <<>>
            /\ UNCHANGED variables
    /\ UNCHANGED <<code, inMain, heap, arrays, now, loopRanges>>
    /\ UNCHANGED facadeVars

LoopBody ==
    /\ pc = "loop"
    /\ loop.pos > 0
    /\ LET info == loopRanges[loop.li]
           body == bodyLines(Lines, info)
       IN
       IF loop.pos > Len(body)
       THEN /\ loop' = [loop EXCEPT !.iter = loop.iter + 1, !.pos = 0]
            /\ UNCHANGED <<variables, heap, arrays, now, loopStates>>
       ELSE LET lineNum == body[loop.pos]
                content == Lines[lineNum]
                processedLine ==
                    IF info.type = "for" /\ MapHas(variables, info.varName)
                    THEN substitute(content, info.varName,
                                    MapGet(variables, info.varName).value)
                    ELSE content
            IN
            IF processedLine.kind = "if"
            THEN /\ loop' = [loop EXCEPT
                       !.pos = loop.pos + 1,
                       !.skipUntilBrace =
                           IF evaluateCondition(processedLine.cond, variables,
                                                arrays)
                           THEN loop.skipUntilBrace ELSE 1]
                 /\ UNCHANGED <<variables, heap, arrays, now, loopStates>>
            ELSE IF loop.skipUntilBrace > 0
            THEN /\ loop' = [loop EXCEPT
                       !.pos = loop.pos + 1,
                       !.skipUntilBrace =
                           loop.skipUntilBrace
                           + (IF processedLine.ob > 0 THEN 1 ELSE 0)
                           - (IF processedLine.cb > 0 THEN 1 ELSE 0)]
                 /\ UNCHANGED <<variables, heap, arrays, now, loopStates>>
            ELSE \E time \in IF content.kind = "ptrnew" THEN Times ELSE {now} :
                 LET r == parseLine(processedLine, variables, heap, arrays, time)
                 IN
                 /\ loop' = [loop EXCEPT !.pos = loop.pos + 1]
                 /\ now' = time
                 /\ variables' = r.vs
                 /\ heap' = r.hp
                 /\ arrays' = r.arrs
                 /\ IF r.changed
                    THEN loopStates' =
                             Append(loopStates,
                                    createState(loopStepNum(stepCount, loopStates),
                                                lineNum, content.kind,
                                                r.vs, r.hp, r.arrs))
                    ELSE UNCHANGED loopStates
    /\ UNCHANGED <<pc, code, i, inMain, states, stepCount, loopRanges>>
    /\ UNCHANGED facadeVars

(***************************************************************************)
(* The end of simulateExecution (lines 195-199) and of startSession        *)
(* (lines 50-66): the session is stored under the id of this call.         *)
(***************************************************************************)
\* mutant of finalStates: the trace is returned as it is
finalStatesAsIs(sts, vs, hp, arrs) == sts

\* lines 194-199
finalStates(sts, vs, hp, arrs) ==
    IF Len(sts) = 0
    THEN <<createState(0, 1, "Program start", vs, hp, arrs)>>
    ELSE sts

Finish ==
    /\ pc = "passC"
    /\ i > Len(Lines)
    /\ LET sts == finalStates(states, variables, heap, arrays)
           session == [states |-> sts, currentStep |-> 0, arrays |-> arrays,
                       code |-> code]
       IN
       /\ sessions' = [k \in DOMAIN sessions \cup {nextId} |->
                          IF k = nextId THEN session ELSE sessions[k]]
       /\ fwd' = [k \in DOMAIN sessions \cup {nextId} |->
                          IF k = nextId THEN 0 ELSE fwd[k]]
       /\ resp' = [Response("start", nextId, TRUE, "") EXCEPT
                      !.totalSteps = Len(sts),
                      !.state = IF Len(sts) > 0 THEN sts[1] ELSE NoState,
                      !.hasState = Len(sts) > 0]
    /\ pc' = "idle" /\ code' = 0 /\ i' = 0 /\ inMain' = FALSE
    /\ variables' = <<>> /\ heap' = <<>> /\ arrays' = <<>> /\ now' = 0
    /\ states' = <<>> /\ stepCount' = 0 /\ loopRanges' = <<>>
    /\ loop' = NoLoop /\ loopStates' = <<>>
    /\ UNCHANGED <<nextId, budget, suite, failed, ended, query, answer>>

(***************************************************************************)
(* getState, stepForward, stepBackward, endSession (lines 1136-1209).      *)
(***************************************************************************)
\* this.sessions.get(id) finds a session
Live(id) == id \in DOMAIN sessions

\* step >= length, on whatever value the request body carried
JsAtLeast(x, y) ==
    LET a == ToNumber(x, <<>>, 0)  b == ToNumber(y, <<>>, 0) IN
    IsNum(a) /\ IsNum(b) /\ a.n >= b.n

\* session.states[step]: an element for an index, undefined for any other
\* property key
HasIndex(sts, step) == IsNum(step) /\ step.n >= 0 /\ step.n < Len(sts)

\* getState of the service, lines 1136-1146
getStateResult(id, step) ==
    IF ~Live(id) THEN Response("getState", id, FALSE, "Session not found")
    ELSE IF JsLess(step, Num(0), <<>>)
            \/ JsAtLeast(step, Num(Len(sessions[id].states)))
    THEN Response("getState", id, FALSE, "Invalid step")
    ELSE [Response("getState", id, TRUE, "") EXCEPT
             !.state = IF HasIndex(sessions[id].states, step)
                       THEN sessions[id].states[step.n + 1] ELSE NoState,
             !.hasState = HasIndex(sessions[id].states, step),
             !.step = step,
             !.totalSteps = Len(sessions[id].states)]

\* getState of the controller (debugController.js lines 81-93), which hands
\* every step but a missing one to the service
getState(id, step) ==
    IF step = Undef
    THEN Response("getState", id, FALSE, "Session ID and step are required")
    ELSE getStateResult(id, step)

GetState(id, step) ==
    /\ pc = "idle"
    /\ resp' = getState(id, step)
    /\ UNCHANGED <<sessions, nextId, budget, suite, fwd, failed, ended, query,
                   answer>>
    /\ UNCHANGED engineVars

\* mutants of forwardStep: past the last step back to the first; two steps
\* at a time
forwardStepWrap(current, total) ==
    IF current >= total - 1 THEN 0 ELSE current + 1
forwardStepTwice(current, total) ==
    IF current >= total - 1 THEN current
    ELSE IF current + 2 <= total - 1 THEN current + 2
    ELSE current + 1

\* the step stepForward moves a session at step current to
forwardStep(current, total) ==
    IF current >= total - 1 THEN current ELSE current + 1

StepForward(id) ==
    /\ pc = "idle"
    /\ IF ~Live(id)
       THEN /\ resp' = Response("stepForward", id, FALSE, "Session not found")
            /\ UNCHANGED <<sessions, fwd>>
       ELSE LET session == sessions[id]
                total == Len(session.states)
                next == forwardStep(session.currentStep, total)
            IN
            /\ sessions' = [sessions EXCEPT ![id].currentStep = next]
            /\ resp' = [Response("stepForward", id, TRUE, "") EXCEPT
                           !.state = session.states[next + 1],
                           !.hasState = TRUE,
                           !.step = Num(next),
                           !.totalSteps = total,
                           !.atEnd = (next >= total - 1)]
            /\ fwd' = [fwd EXCEPT ![id] =
                          IF fwd[id] >= 0 /\ fwd[id] < total
                          THEN fwd[id] + 1 ELSE -1]
    /\ UNCHANGED <<nextId, budget, suite, failed, ended, query, answer>>
    /\ UNCHANGED engineVars

\* the step stepBackward moves a session at step current to
backwardStep(current) == IF current <= 0 THEN 0 ELSE current - 1

StepBackward(id) ==
    /\ pc = "idle"
    /\ IF ~Live(id)
       THEN /\ resp' = Response("stepBackward", id, FALSE, "Session not found")
            /\ UNCHANGED <<sessions, fwd>>
       ELSE LET session == sessions[id]
                total == Len(session.states)
                prev == backwardStep(session.currentStep)
            IN
            /\ sessions' = [sessions EXCEPT ![id].currentStep = prev]
            /\ resp' = [Response("stepBackward", id, TRUE, "") EXCEPT
                           !.state = session.states[prev + 1],
                           !.hasState = TRUE,
                           !.step = Num(prev),
                           !.totalSteps = total,
                           !.atStart = (prev <= 0)]
            /\ fwd' = [fwd EXCEPT ![id] = -1]
    /\ UNCHANGED <<nextId, budget, suite, failed, ended, query, answer>>
    /\ UNCHANGED engineVars

\* mutant of deleteSession: nothing is removed
deleteSessionKeeps(reg, id) == reg

\* mutant of deleteSession: the whole registry is emptied
deleteSessionClears(reg, id) == [k \in {} |-> reg[k]]

\* the registry after this.sessions.delete(id)
deleteSession(reg, id) == [k \in DOMAIN reg \ {id} |-> reg[k]]

EndSession(id) ==
    /\ pc = "idle"
    /\ IF ~Live(id)
       THEN /\ resp' = Response("endSession", id, FALSE, "Session not found")
            /\ UNCHANGED <<sessions, fwd, ended>>
       ELSE /\ sessions' = deleteSession(sessions, id)
            /\ fwd' = [k \in DOMAIN fwd \ {id} |-> fwd[k]]
            /\ ended' = ended \cup {id}
            /\ resp' = Response("endSession", id, TRUE, "")
    /\ UNCHANGED <<nextId, budget, suite, failed, query, answer>>
    /\ UNCHANGED engineVars

\* the ids and steps a client sends: every id issued so far and one (0) that
\* never was; the steps -1 .. MaxStep, the last step and the one after it,
\* and the JSON values that are no number: null, a string, and no step
Ids == 0..nextId
Steps(id) ==
    {Num(k) : k \in (-1..MaxStep) \cup (IF Live(id)
                                        THEN {Len(sessions[id].states) - 1,
                                              Len(sessions[id].states)}
                                        ELSE {})}
    \cup {Null, Str("last"), Undef}

Next ==
    \/ \E src \in SourcesOf(suite), compiles \in BOOLEAN :
           StartSession(src, compiles)
    \/ FirstPass
    \/ SecondPass
    \/ ThirdPass
    \/ LoopIteration
    \/ LoopBody
    \/ Finish
    \/ \E id \in Ids : StepForward(id)
    \/ \E id \in Ids : StepBackward(id)
    \/ \E id \in Ids : \E step \in Steps(id) : GetState(id, step)
    \/ \E id \in Ids : EndSession(id)

Spec == Init /\ [][Next]_vars

(***************************************************************************)
(* The two evaluators on their own.  evaluateExpression and                *)
(* evaluateCondition read nothing but their arguments, so each is run once *)
(* on a text and a variable map drawn at the start.                        *)
(***************************************************************************)
Literals == {0, 2, 3, 4, 7, 10}
Values == {-7, -1, 0, 3, 4}
Operators == {"+", "-", "*", "/", "%"}
Comparisons == {"==", "!=", "<=", ">=", "<", ">"}
Divisors == {1, 2, 3}
Remainders == {0, 1, 2}

IntVar(name, n) ==
    [name |-> name, type |-> TypeOf("int", FALSE, -1), value |-> Num(n),
     visualType |-> "primitive", pointsTo |-> Undef]

\* the variable map {i: iv, x: xv, y: yv}
Env(iv, xv, yv) == <<IntVar("i", iv), IntVar("x", xv), IntVar("y", yv)>>

Operands == {TNum(n) : n \in Literals} \cup {TId("x")}
Terms == {<<TNum(n)>> : n \in Literals \ {7, 10}}
             \cup {<<TOp("-"), TNum(2)>>, <<TId("i")>>, <<TId("x")>>, <<TId("y")>>}

\* an expression of one of the shapes a + b, (a + b), a + b * c, (a + b) * c,
\* a + (b * c), and the variable map it is evaluated under
ExprQuery(shape, a, o1, b, o2, c, env) ==
    [kind |-> "expr", shape |-> shape, a |-> a, o1 |-> o1, b |-> b, o2 |-> o2,
     c |-> c, env |-> env]

\* a condition l OP r
CmpQuery(l, op, r, env) ==
    [kind |-> "cmp", l |-> l, op |-> op, r |-> r, env |-> env]

\* a condition e % k == r or e % k != r
ModQuery(l, k, op, r, env) ==
    [kind |-> "mod", l |-> l, k |-> k, op |-> op, r |-> r, env |-> env]

\* the text of a query
exprText(q) ==
    CASE q.shape = "pair" -> <<q.a, TOp(q.o1), q.b>>
      [] q.shape = "wrapped" -> <<TOp("("), q.a, TOp(q.o1), q.b, TOp(")")>>
      [] q.shape = "flat" -> <<q.a, TOp(q.o1), q.b, TOp(q.o2), q.c>>
      [] q.shape = "left" ->
            <<TOp("("), q.a, TOp(q.o1), q.b, TOp(")"), TOp(q.o2), q.c>>
      [] q.shape = "right" ->
            <<q.a, TOp(q.o1), TOp("("), q.b, TOp(q.o2), q.c, TOp(")")>>

condText(q) ==
    IF q.kind = "cmp" THEN q.l \o OpLex(q.op) \o q.r
    ELSE q.l \o <<TOp("%"), TNum(q.k)>> \o OpLex(q.op) \o <<TNum(q.r)>>

\* a call f(args), args a sequence of integers
CallQuery(f, args, env) == [kind |-> "call", f |-> f, args |-> args, env |-> env]

\* the text of an integer: its digits, after '-' when it is negative
NumberText(n) == IF n < 0 THEN <<TOp("-"), TNum(-n)>> ELSE <<TNum(n)>>

\* the arguments of a call, separated by commas
RECURSIVE ArgsText(_)
ArgsText(args) ==
    IF args = <<>> THEN <<>>
    ELSE IF Len(args) = 1 THEN NumberText(args[1])
    ELSE NumberText(args[1]) \o <<TOp(",")>> \o ArgsText(Tail(args))

callText(q) == <<TId(q.f), TOp("(")>> \o ArgsText(q.args) \o <<TOp(")")>>

\* what evaluateExpression is handed for a query
queryExpr(q) ==
    IF q.kind = "expr" THEN ETok(exprText(q)) ELSE exprOf(callText(q))

EvalInit ==
    /\ sessions = [k \in {} |-> NoSession]
    /\ fwd = [k \in {} |-> 0]
    /\ failed = {}
    /\ ended = {}
    /\ nextId = 0
    /\ suite = "evaluators"
    /\ budget = 0
    /\ resp = Response("none", 0, FALSE, "")
    /\ EngineIdle
    /\ answer = NoAnswer
    /\ \/ \E shape \in {"flat", "left", "right"}, a \in Operands,
             o1 \in Operators, b \in Operands, o2 \in Operators,
             c \in Operands, xv \in {-7, 1} :
              query = ExprQuery(shape, a, o1, b, o2, c, Env(0, xv, 0))
       \/ \E shape \in {"pair", "wrapped"}, a \in Operands,
             o1 \in Operators, b \in Operands, xv \in {-7, 1} :
              query = ExprQuery(shape, a, o1, b, "+", TNum(0), Env(0, xv, 0))
       \/ \E l \in Terms, op \in Comparisons, r \in Terms,
             xv \in Values, yv \in Values :
              query = CmpQuery(l, op, r, Env(4, xv, yv))
       \/ \E l \in {<<TId("i")>>, <<TId("x")>>, <<TNum(4)>>, <<TNum(7)>>},
             k \in Divisors, op \in {"==", "!="}, r \in Remainders,
             iv \in Values, xv \in Values :
              query = ModQuery(l, k, op, r, Env(iv, xv, 0))
       \/ \E f \in {"abs", "sqrt", "twice"}, a \in {-5, 0, 4, 9} :
              query = CallQuery(f, <<a>>, Env(0, 0, 0))
       \/ \E f \in {"min", "max", "pow", "twice"}, a \in {-5, 2, 3, 7},
             b \in {2, 3, 7} :
              query = CallQuery(f, <<a, b>>, Env(0, 0, 0))
       \/ query = CallQuery("twice", <<>>, Env(0, 0, 0))

\* evaluateExpression(text, variables), lines 770-951
Evaluate ==
    /\ query.kind \in {"expr", "call"}
    /\ ~answer.done
    /\ answer' = [done |-> TRUE,
                  value |-> evaluateExpression(queryExpr(query), query.env,
                                               <<>>),
                  truth |-> FALSE]
    /\ UNCHANGED <<sessions, nextId, budget, suite, resp, fwd, failed, ended,
                   query>>
    /\ UNCHANGED engineVars

\* evaluateCondition(text, variables), lines 440-514
EvaluateCondition ==
    /\ query.kind \in {"cmp", "mod"}
    /\ ~answer.done
    /\ answer' = [done |-> TRUE, value |-> Undef,
                  truth |-> evaluateCondition(conditionShape(condText(query)),
                                              query.env, <<>>)]
    /\ UNCHANGED <<sessions, nextId, budget, suite, resp, fwd, failed, ended,
                   query>>
    /\ UNCHANGED engineVars

EvalNext == Evaluate \/ EvaluateCondition

EvalSpec == EvalInit /\ [][EvalNext]_vars

(***************************************************************************)
(* Properties.                                                             *)
(***************************************************************************)
\* the snapshots emitted so far by the running simulateExecution
Emitted == states \o loopStates

StepsAreIndices(sts) == \A k \in 1..Len(sts) : sts[k].step = k - 1

\* C1: in the trace being built and in every stored trace, the snapshot at
\* index k carries step k (snapshots of unrolled loops and the synthetic
\* state included), and the totalSteps a successful startSession returns is
\* the number of states of the session it stored.
C1_StepIsIndex ==
    /\ StepsAreIndices(Emitted)
    /\ \A id \in DOMAIN sessions : StepsAreIndices(sessions[id].states)
    /\ (resp.op = "start" /\ resp.success) =>
           /\ Live(resp.id)
           /\ resp.totalSteps = Len(sessions[resp.id].states)
           /\ resp.state = sessions[resp.id].states[1]

\* a stored trace longer than one unrolled loop, with the snapshots of the
\* iterations of a loop (the same line again) and a last snapshot whose step
\* is the last index
C1_Witness ==
    /\ resp.op = "start" /\ resp.success
    /\ resp.totalSteps > MaxIterations + 1
    /\ sessions[resp.id].states[resp.totalSteps].step = resp.totalSteps - 1
    /\ \E k \in 2..resp.totalSteps :
           /\ sessions[resp.id].states[k].currentLine
                  = sessions[resp.id].states[k - 1].currentLine
           /\ sessions[resp.id].states[k].step = k - 1

\* C2: the current step of a live session stays within 0 .. totalSteps-1;
\* stepForward at the last step leaves it there and returns the last state
\* with atEnd, stepBackward at step 0 leaves it 0 and returns states[0] with
\* atStart.
C2_CurrentStepInRange ==
    \A id \in DOMAIN sessions :
        /\ sessions[id].currentStep >= 0
        /\ sessions[id].currentStep <= Len(sessions[id].states) - 1

C2_ForwardAtEnd ==
    \A id \in DOMAIN sessions :
        (StepForward(id)
         /\ sessions[id].currentStep = Len(sessions[id].states) - 1)
        => /\ sessions' = sessions
           /\ resp'.success /\ resp'.atEnd
           /\ resp'.step = Num(sessions[id].currentStep)
           /\ resp'.state = sessions[id].states[Len(sessions[id].states)]

C2_BackwardAtStart ==
    \A id \in DOMAIN sessions :
        (StepBackward(id) /\ sessions[id].currentStep = 0)
        => /\ sessions' = sessions
           /\ resp'.success /\ resp'.atStart
           /\ resp'.step = Num(0)
           /\ resp'.state = sessions[id].states[1]

C2_StepsClamped ==
    /\ []C2_CurrentStepInRange
    /\ [][C2_ForwardAtEnd]_vars
    /\ [][C2_BackwardAtStart]_vars

\* as many stepForward requests as the trace has states have been made on a
\* fresh session of several states: the last of them was made at the end
C2_Witness ==
    \E id \in DOMAIN sessions :
        /\ Len(sessions[id].states) > 1
        /\ fwd[id] = Len(sessions[id].states)
        /\ resp.op = "stepForward" /\ resp.id = id /\ resp.atEnd
        /\ sessions[id].currentStep = Len(sessions[id].states) - 1

\* C3: after k successive stepForward requests on a freshly started session
\* (k < totalSteps; k = 0 is the initialState of the start) the session is at
\* step k and the state returned is the one getState(id, k) returns, with
\* step number k.
C3_ForwardMatchesGetState ==
    \A id \in DOMAIN sessions :
        (fwd[id] >= 0 /\ fwd[id] < Len(sessions[id].states)) =>
            /\ sessions[id].currentStep = fwd[id]
            /\ (resp.id = id /\ resp.op = (IF fwd[id] = 0 THEN "start"
                                          ELSE "stepForward")) =>
                   /\ resp.hasState
                   /\ getState(id, Num(fwd[id])).success
                   /\ getState(id, Num(fwd[id])).hasState
                   /\ resp.state = getState(id, Num(fwd[id])).state
                   /\ resp.state.step = fwd[id]
                   /\ resp.state.step = getState(id, Num(fwd[id])).state.step
                   /\ (fwd[id] > 0 => resp.step = Num(fwd[id]))

C3_Witness ==
    \E id \in DOMAIN sessions :
        /\ fwd[id] >= 2 /\ fwd[id] < Len(sessions[id].states)
        /\ resp.op = "stepForward" /\ resp.id = id

\* a snapshot with the arrays it refers to written out
Resolved(st, arrs) ==
    [st EXCEPT !.heap =
        [h \in 1..Len(st.heap) |->
            [st.heap[h] EXCEPT !.fields =
                [f \in 1..Len(st.heap[h].fields) |->
                    IF st.heap[h].fields[f].value.t = "arr"
                    THEN [st.heap[h].fields[f] EXCEPT
                             !.value = OwnArr(arrs[st.heap[h].fields[f].value.n])]
                    ELSE st.heap[h].fields[f]]]]]

\* C4: while simulateExecution runs, no step of it changes the variables or
\* the heap contents recorded in a snapshot already appended to the trace.
C4_SnapshotsFrozen ==
    [][(pc # "idle" /\ pc' # "idle") =>
          \A k \in 1..Len(Emitted) :
              /\ k <= Len(Emitted')
              /\ Resolved(Emitted'[k], arrays') = Resolved(Emitted[k], arrays)]_vars

\* a snapshot whose heap holds an array, and an array write after it
C4_Witness ==
    /\ pc # "idle"
    /\ \E k \in 1..Len(Emitted) :
           /\ k < Len(Emitted)
           /\ Emitted[Len(Emitted)].sourceCode = "arrmod"
           /\ \E h \in 1..Len(Emitted[k].heap) :
                  \E f \in 1..Len(Emitted[k].heap[h].fields) :
                      Emitted[k].heap[h].fields[f].value.t = "arr"

\* C5: the iteration count of every identified loop is a number in
\* 0 .. MaxIterations, as computed by identifyLoops and as computed again at
\* the loop's entry, and no loop is in an iteration beyond MaxIterations.
C5_IterationsClamped ==
    /\ \A k \in 1..Len(loopRanges) :
           /\ IsNum(loopRanges[k].iterations)
           /\ loopRanges[k].iterations.n >= 0
           /\ loopRanges[k].iterations.n <= MaxIterations
    /\ loop.iter <= MaxIterations

\* a loop entered with a count that is no number
C5_Witness ==
    /\ pc = "loop"
    /\ ~IsNum(loopRanges[loop.li].iterations)

\* C6: an array keeps the length it was declared with, in the live variables
\* and in every snapshot: a write or a swap at an index beyond it is dropped.
C6_ArrayLengthFixed ==
    /\ \A k \in 1..Len(variables) :
           variables[k].value.t = "arr" =>
               Len(arrays[variables[k].value.n]) = variables[k].type.len
    /\ \A k \in 1..Len(Emitted) :
           \A v \in 1..Len(Emitted[k].variables) :
               Emitted[k].variables[v].value.t = "own" =>
                   Len(Emitted[k].variables[v].value.a)
                       = Emitted[k].variables[v].type.len

\* a snapshot of an array longer than it was declared
C6_Witness ==
    \E k \in 1..Len(Emitted) :
        \E v \in 1..Len(Emitted[k].variables) :
            /\ Emitted[k].variables[v].value.t = "own"
            /\ Len(Emitted[k].variables[v].value.a)
                   > Emitted[k].variables[v].type.len

\* pointsTo names a heap object or a variable of the snapshot
Resolves(st, v) ==
    \/ \E h \in 1..Len(st.heap) : st.heap[h].id = v.pointsTo
    \/ \E w \in 1..Len(st.variables) : VarIdOf(st.variables[w].name) = v.pointsTo

Dangling(st) ==
    {v \in 1..Len(st.variables) :
        /\ st.variables[v].visualType = "pointer"
        /\ st.variables[v].pointsTo \notin {Null, Undef}
        /\ ~Resolves(st, st.variables[v])}

\* C7: in every emitted snapshot the pointsTo of a pointer variable is null
\* or the id of a heap object or of a variable of the same snapshot.
C7_PointsToResolves ==
    \A k \in 1..Len(Emitted) : Dangling(Emitted[k]) = {}

\* a snapshot with a pointer whose pointsTo is the string "nullptr"
C7_Witness ==
    \E k \in 1..Len(Emitted) :
        \E v \in Dangling(Emitted[k]) :
            Emitted[k].variables[v].pointsTo = Str("nullptr")

\* the requests that look a session up
Lookups == {"stepForward", "stepBackward", "getState", "endSession"}

\* C8: a start the compiler rejects returns success:false with the error
\* "Compilation Error" and leaves the registry as it was; no session is ever
\* stored under the id of that attempt, so that every later request with it
\* fails and carries no state.
C8_NothingStored ==
    /\ \A id \in failed : ~Live(id)
    /\ (resp.op = "start" /\ ~resp.success) =>
           /\ resp.error = "Compilation Error"
           /\ resp.id \in failed
           /\ ~resp.hasState
    /\ (resp.op \in Lookups /\ resp.id \in failed) =>
           /\ ~resp.success
           /\ ~resp.hasState

C8_RegistryKept ==
    \A src \in SourcesOf(suite) :
        StartSession(src, FALSE) =>
            /\ sessions' = sessions
            /\ resp'.op = "start" /\ ~resp'.success
            /\ resp'.error = "Compilation Error"
            /\ pc' = "idle"

C8_CompileFailure == []C8_NothingStored /\ [][C8_RegistryKept]_vars

\* a rejected start while another session is live, then a request with the
\* id of the rejected attempt
C8_Witness ==
    /\ resp.op = "stepForward"
    /\ resp.id \in failed
    /\ DOMAIN sessions # {}

\* C9: endSession on a live session removes it and succeeds; afterwards
\* every request with that id fails with "Session not found" and leaves the
\* registry as it was; only endSession removes a session.
C9_Gone ==
    /\ \A id \in ended : ~Live(id)
    /\ (resp.op = "endSession" /\ resp.success) => resp.id \in ended

C9_EndRemoves ==
    \A id \in DOMAIN sessions :
        EndSession(id) =>
            /\ resp'.success
            /\ DOMAIN sessions' = DOMAIN sessions \ {id}
            /\ \A k \in DOMAIN sessions' : sessions'[k] = sessions[k]

C9_NotFound ==
    \A id \in ended :
        /\ (StepForward(id) \/ StepBackward(id) \/ EndSession(id))
           => /\ sessions' = sessions
              /\ ~resp'.success /\ resp'.error = "Session not found"
        /\ \A step \in Steps(id) \ {Undef} :
               GetState(id, step)
               => /\ sessions' = sessions
                  /\ ~resp'.success /\ resp'.error = "Session not found"

C9_OnlyEndRemoves ==
    \A id \in DOMAIN sessions :
        id \notin DOMAIN sessions' => EndSession(id)

C9_EndSession ==
    /\ []C9_Gone
    /\ [][C9_EndRemoves]_vars
    /\ [][C9_NotFound]_vars
    /\ [][C9_OnlyEndRemoves]_vars

\* a second endSession of a session, refused, while another session is live
C9_Witness ==
    /\ resp.op = "endSession" /\ ~resp.success
    /\ resp.id \in ended
    /\ DOMAIN sessions # {}

\* C10: getState on a live session succeeds with states[k] exactly when k
\* is an index of the trace, fails without a state for every other k, and
\* leaves the session's current step as it was.
C10_Answer(id, step) ==
    /\ sessions' = sessions
    /\ IF HasIndex(sessions[id].states, step)
       THEN /\ resp'.success /\ resp'.hasState
            /\ resp'.state = sessions[id].states[step.n + 1]
       ELSE /\ ~resp'.success /\ ~resp'.hasState

C10_GetStateInRange ==
    [][\A id \in DOMAIN sessions :
           \A step \in Steps(id) :
               GetState(id, step) => C10_Answer(id, step)]_vars

\* getState answered success for a step that is no number, with no state
C10_Witness ==
    /\ resp.op = "getState" /\ resp.success
    /\ Live(resp.id)
    /\ ~IsNum(resp.step)
    /\ ~resp.hasState

\* the value of a variable in a snapshot, undefined when it has none
ValueIn(st, name) ==
    IF MapHas(st.variables, name) THEN MapGet(st.variables, name).value
    ELSE Undef

\* C11: the program written on the line of main gives a trace of 3 states,
\* one per declaration, whose last state holds x = 10, y = 20 and sum = 30,
\* all primitive.
C11_OneLineProgram ==
    \A id \in SessionsOf(SrcOneLine) :
        LET sts == sessions[id].states IN
        /\ Len(sts) = 3
        /\ [k \in 1..Len(sts[3].variables) |-> sts[3].variables[k].name]
               = <<"x", "y", "sum">>
        /\ ValueIn(sts[3], "x") = Num(10)
        /\ ValueIn(sts[3], "y") = Num(20)
        /\ ValueIn(sts[3], "sum") = Num(30)
        /\ \A k \in 1..3 : sts[3].variables[k].visualType = "primitive"

\* the trace stored for that program: the synthetic state alone
C11_Witness ==
    \E id \in SessionsOf(SrcOneLine) :
        /\ Len(sessions[id].states) = 1
        /\ sessions[id].states[1].variables = <<>>
        /\ resp.op = "start" /\ resp.id = id

\* a field of a heap object
Field(name, value, visualType) ==
    [name |-> name, value |-> value, visualType |-> visualType]

\* C12: for the list of three nodes written several statements to a line,
\* the last state's heap holds three objects in creation order, head points
\* to the first, the first object's fields are data = 10 (primitive) and
\* next = the id of the second (pointer), and the third's next is "nullptr".
C12_ThreeNodes ==
    \A id \in SessionsOf(SrcThreeNodes) :
        LET sts == sessions[id].states
            last == sts[Len(sts)]
        IN
        /\ Len(last.heap) = 3
        /\ MapHas(last.variables, "head")
        /\ MapGet(last.variables, "head").pointsTo = last.heap[1].id
        /\ last.heap[1].fields
               = <<Field("data", Num(10), "primitive"),
                   Field("next", last.heap[2].id, "pointer")>>
        /\ FieldHas(last.heap[3].fields, "next")
        /\ last.heap[3].fields[FieldIdx(last.heap[3].fields, "next")].value
               = Str("nullptr")

\* the trace stored for that list: three objects, none with a field
C12_Witness ==
    \E id \in SessionsOf(SrcThreeNodes) :
        LET sts == sessions[id].states
            last == sts[Len(sts)]
        IN
        /\ Len(sts) = 3
        /\ Len(last.heap) = 3
        /\ MapGet(last.variables, "head").pointsTo = last.heap[1].id
        /\ \A h \in 1..3 : last.heap[h].fields = <<>>

\* the numbers an array variable holds in a snapshot
NumbersIn(st, name) ==
    LET v == ValueIn(st, name) IN [k \in 1..Len(v.a) |-> v.a[k]]

\* C13: an array {1,2,3,4,5} doubled element by element in a for loop gives
\* 1 + 5 = 6 states, and after the last one the array is [2,4,6,8,10]: the
\* array element in `arr[k] * 2` evaluates to the element's value.
C13_Doubled ==
    \A id \in SessionsOf(SrcDouble) :
        LET sts == sessions[id].states IN
        /\ Len(sts) = 6
        /\ NumbersIn(sts[6], "arr")
               = <<Num(2), Num(4), Num(6), Num(8), Num(10)>>

\* the trace stored for that program: 6 states, the array all zeros
C13_Witness ==
    \E id \in SessionsOf(SrcDouble) :
        LET sts == sessions[id].states IN
        /\ Len(sts) = 6
        /\ NumbersIn(sts[6], "arr")
               = <<Num(0), Num(0), Num(0), Num(0), Num(0)>>

\* the integer an operand stands for
OperandValue(tok, env) ==
    IF tok.type = "num" THEN tok.n ELSE MapGet(env, tok.value).value.n

\* one operator on two integers: lines 1029-1030 and 1046-1049
Apply(op, x, y) ==
    CASE op = "+" -> x + y
      [] op = "-" -> x - y
      [] op = "*" -> x * y
      [] op = "/" -> IF y = 0 THEN 0 ELSE FloorDiv(x, y)
      [] op = "%" -> IF y = 0 THEN 0 ELSE JsRem(x, y)

BindsTighter(op) == op \in {"*", "/", "%"}

\* the value of a query when * / % bind tighter than + -, equal precedence
\* groups from the left, and parentheses group first
Grouped(q) ==
    LET a == OperandValue(q.a, q.env)
        b == OperandValue(q.b, q.env)
        c == OperandValue(q.c, q.env)
    IN  CASE q.shape \in {"pair", "wrapped"} -> Apply(q.o1, a, b)
          [] q.shape = "left" -> Apply(q.o2, Apply(q.o1, a, b), c)
          [] q.shape = "right" -> Apply(q.o1, a, Apply(q.o2, b, c))
          [] q.shape = "flat" ->
                IF BindsTighter(q.o2) /\ ~BindsTighter(q.o1)
                THEN Apply(q.o1, a, Apply(q.o2, b, c))
                ELSE Apply(q.o2, Apply(q.o1, a, b), c)

\* evaluateExpression has answered the expression with this text
Evaluated(text) ==
    /\ query.kind = "expr"
    /\ answer.done
    /\ exprText(query) = text

\* C14: the evaluator's value of every expression a o b, (a o b), a o b o c,
\* (a o b) o c and a o (b o c) over integer operands is the value of the
\* expression grouped by precedence, from the left among equals, and by its
\* parentheses; 2+3*4 is 14, (2+3)*4 is 20, 10%3 is 1 and 7/2 is 3.
C14_Precedence ==
    /\ (query.kind = "expr" /\ answer.done)
           => answer.value = Num(Grouped(query))
    /\ Evaluated(<<TNum(2), TOp("+"), TNum(3), TOp("*"), TNum(4)>>)
           => answer.value = Num(14)
    /\ Evaluated(<<TOp("("), TNum(2), TOp("+"), TNum(3), TOp(")"), TOp("*"),
                   TNum(4)>>)
           => answer.value = Num(20)
    /\ Evaluated(<<TNum(10), TOp("%"), TNum(3)>>) => answer.value = Num(1)
    /\ Evaluated(<<TNum(7), TOp("/"), TNum(2)>>) => answer.value = Num(3)

\* 2+3*4 has been evaluated, to 14
C14_Witness ==
    /\ Evaluated(<<TNum(2), TOp("+"), TNum(3), TOp("*"), TNum(4)>>)
    /\ answer.value = Num(14)

\* the integer a term of a condition stands for: a literal, -2, or a variable
TermValue(text, env) ==
    IF text[1].type = "num" THEN text[1].n
    ELSE IF text[1].type = "op" THEN -text[2].n
    ELSE MapGet(env, text[1].value).value.n

\* a OP b on integers
Holds(op, a, b) ==
    CASE op = "==" -> a = b
      [] op = "!=" -> a # b
      [] op = "<=" -> a <= b
      [] op = ">=" -> a >= b
      [] op = "<" -> a < b
      [] op = ">" -> a > b

\* the remainder of a by k > 0 when the quotient is rounded toward zero
Remainder(a, k) ==
    LET quotient == IF a >= 0 THEN a \div k ELSE -((-a) \div k)
    IN  a - k * quotient

\* evaluateCondition has answered the condition with this text under this map
Decided(text, env) ==
    /\ query.kind \in {"cmp", "mod"}
    /\ answer.done
    /\ condText(query) = text
    /\ query.env = env

\* C15: the condition evaluator's answer to a OP b, OP one of == != <= >= < >,
\* and to e % k == r and e % k != r, over integer variables and literals, is
\* whether the relation holds of the integers; i%2==0 with i = 4 is true and
\* x<=y with x = 3, y = 3 is true.
C15_TruthValue ==
    /\ (query.kind = "cmp" /\ answer.done)
           => (answer.truth <=> Holds(query.op, TermValue(query.l, query.env),
                                      TermValue(query.r, query.env)))
    /\ (query.kind = "mod" /\ answer.done)
           => (answer.truth <=>
                   Holds(query.op,
                         Remainder(TermValue(query.l, query.env), query.k),
                         query.r))
    /\ Decided(<<TId("i"), TOp("%"), TNum(2), TOp("="), TOp("="), TNum(0)>>,
               Env(4, 0, 0))
           => answer.truth
    /\ Decided(<<TId("x"), TOp("<"), TOp("="), TId("y")>>, Env(4, 3, 3))
           => answer.truth

\* x<=y has been decided with x = 3 and y = 3, and found true
C15_Witness ==
    /\ Decided(<<TId("x"), TOp("<"), TOp("="), TId("y")>>, Env(4, 3, 3))
    /\ answer.truth

\* the for-loop being unrolled
Unrolling == IF pc = "loop" THEN loopRanges[loop.li] ELSE NoLoopInfo

\* the header's bounds are integers: literals, or names of integer variables
IntegerBounds(info) == IsNum(info.startVal) /\ IsNum(info.endVal)

\* n of the header: E-S for <, E-S+1 for <=, S-E for >, S-E+1 for >=,
\* |E-S| for !=
CountOf(op, S, E) ==
    CASE op = "<" -> E - S
      [] op = "<=" -> E - S + 1
      [] op = ">" -> S - E
      [] op = ">=" -> S - E + 1
      [] op = "!=" -> IF E >= S THEN E - S ELSE S - E

Clamp(n, lo, hi) == IF n < lo THEN lo ELSE IF n > hi THEN hi ELSE n

\* C16: while a for-loop with integer bounds S and E is unrolled, the number
\* of times its body is run is clamp(n, 0, 50), n being E-S for <, E-S+1
\* for <=, S-E for >, S-E+1 for >= and |E-S| for !=, for an end bound read
\* again at loop entry as for a literal one.
C16_IterationCount ==
    (pc = "loop" /\ Unrolling.type = "for" /\ IntegerBounds(Unrolling))
        => /\ Unrolling.iterations =
                  Num(Clamp(CountOf(Unrolling.operator, Unrolling.startVal.n,
                                    Unrolling.endVal.n), 0, 50))
           /\ loop.iter <= Unrolling.iterations.n

\* the loop "for (int i = 0; i <= n; i++)" is unrolled with n = 3, and its
\* body is run 3 times
C16_Witness ==
    /\ pc = "loop"
    /\ Lines = SrcInclusive
    /\ Unrolling.operator = "<="
    /\ Unrolling.startVal = Num(0)
    /\ Unrolling.endVal = Num(3)
    /\ Unrolling.iterations = Num(3)
    /\ loop.iter = 3
    /\ loop.pos = 0

\* the braces open between the header of the loop and line lineNum: 0 for a
\* line of the loop's own block, 1 inside an if block of it
RECURSIVE OpenBraces(_, _)
OpenBraces(from, lineNum) ==
    IF from >= lineNum THEN 0
    ELSE Lines[from].ob - Lines[from].cb + OpenBraces(from + 1, lineNum)

\* the body line simulateLoop is about to read, 0 if none
AtLine ==
    IF pc = "loop" /\ loop.pos \in 1..Len(bodyLines(Lines, Unrolling))
    THEN bodyLines(Lines, Unrolling)[loop.pos] ELSE 0

\* C17: in an iteration a false "if (cond) {" skips the lines up to and
\* including its matching "}" and no more: a statement of the loop body that
\* stands outside every if block is never skipped.  For the loop of SrcBranch
\* (i = 0, 1, 2; "last = i" after the block) the trace has 7 snapshots: two
\* declarations, "count = count + 1" for i = 0 and 2, "last = i" three times.
C17_SkipsToMatchingBrace ==
    /\ (AtLine # 0 /\ OpenBraces(Unrolling.start + 1, AtLine) = 0)
           => loop.skipUntilBrace = 0
    /\ \A id \in SessionsOf(SrcBranch) : Len(sessions[id].states) = 7

\* in the iteration i = 1 of SrcBranch the condition was false, the block is
\* behind, and "last = i" is reached while lines are still being skipped
C17_Witness ==
    /\ AtLine = 8
    /\ Lines = SrcBranch
    /\ loop.iter = 1
    /\ loop.skipUntilBrace = 1

\* Pass C has just entered a for-loop: nothing of it has been unrolled yet
AtLoopEntry ==
    pc = "loop" /\ loop.iter = 0 /\ loop.pos = 0 /\ Unrolling.type = "for"

\* the bound written as tok in the header is an identifier of the live map,
\* and val is the value it has there now
BoundNow(tok, val) ==
    (tok.e = "var" /\ MapHas(variables, tok.x))
        => val = MapGet(variables, tok.x).value

\* C18: when Pass C enters a for-loop whose start or end is an identifier,
\* the start value and the end value the loop is unrolled with are the values
\* the variables have in the map at that moment.
C18_LateBinding ==
    AtLoopEntry
        => /\ BoundNow(Lines[Unrolling.start].s, Unrolling.startVal)
           /\ BoundNow(Lines[Unrolling.start].e, Unrolling.endVal)

\* "for (int i = s; ...)" is entered with s = 4 in the map and start value 1
C18_Witness ==
    /\ AtLoopEntry
    /\ Lines = SrcLateStart
    /\ MapGet(variables, "s").value = Num(4)
    /\ Unrolling.startVal = Num(1)

\* a while loop is being unrolled
WhileLoop == pc = "loop" /\ Unrolling.type = "while"

\* the next body line of the loop is a statement that is not being skipped
AtStatement ==
    /\ AtLine # 0
    /\ Lines[AtLine].kind # "if"
    /\ loop.skipUntilBrace = 0

\* the line is handed to parseLine, and a snapshot is emitted when it reports
\* a change
Recognised ==
    \E time \in {now, now + 1} :
        LET r == parseLine(Lines[AtLine], variables, heap, arrays, time) IN
        /\ variables' = r.vs
        /\ heap' = r.hp
        /\ arrays' = r.arrs
        /\ loop' = [loop EXCEPT !.pos = loop.pos + 1]
        /\ loopStates' =
               IF r.changed
               THEN Append(loopStates,
                           createState(stepCount + Len(loopStates), AtLine,
                                       Lines[AtLine].kind, r.vs, r.hp, r.arrs))
               ELSE loopStates

ProgramStart(st) ==
    st.step = 0 /\ st.currentLine = 1 /\ st.sourceCode = "Program start"

\* startSession returns: the trace of this run is stored and answered with
Returns == pc = "passC" /\ pc' = "idle"

\* C20: a stored trace is never empty.  When simulateExecution ends without a
\* snapshot the trace is the one synthetic state (step 0, currentLine 1,
\* sourceCode "Program start"); when it ends with snapshots the trace is
\* those snapshots and none of them is synthetic.  The initialState of a
\* successful start is the first state of the trace, never null.
C20_TraceNeverEmpty ==
    /\ [](\A id \in DOMAIN sessions : Len(sessions[id].states) >= 1)
    /\ [][Returns =>
             LET stored == sessions'[nextId].states IN
             /\ states = <<>> => (Len(stored) = 1 /\ ProgramStart(stored[1]))
             /\ states # <<>>
                    => /\ stored = states
                       /\ \A k \in 1..Len(stored) : ~ProgramStart(stored[k])
             /\ resp'.success
             /\ resp'.hasState
             /\ resp'.state = stored[1]
             /\ resp'.totalSteps = Len(stored)]_vars

\* a start has just returned the synthetic state as initialState
C20_Witness ==
    /\ resp.op = "start"
    /\ resp.success
    /\ resp.hasState
    /\ ProgramStart(resp.state)
    /\ resp.totalSteps = 1

\* the quotient of a by b # 0 rounded toward zero
TowardZero(a, b) ==
    LET abs(n) == IF n < 0 THEN -n ELSE n
        q == abs(a) \div abs(b)
    IN  IF (a < 0) = (b < 0) THEN q ELSE -q

\* C21: integer division rounds toward zero, in the evaluator's a / b and in
\* the compound assignment x /= b: after "int x = -7; x /= 2; int y = -7 / 2;
\* int z = 7 / 2;" x and y are -3 and z is 3.
C21_TruncatesTowardZero ==
    \A id \in SessionsOf(SrcQuotient) :
        LET last == sessions[id].states[Len(sessions[id].states)] IN
        /\ ValueIn(last, "x") = Num(TowardZero(-7, 2))
        /\ ValueIn(last, "y") = Num(TowardZero(-7, 2))
        /\ ValueIn(last, "z") = Num(TowardZero(7, 2))

\* the program has run: x and y are -4, the quotient rounded down, z is 3
C21_Witness ==
    \E id \in SessionsOf(SrcQuotient) :
        LET last == sessions[id].states[Len(sessions[id].states)] IN
        /\ ValueIn(last, "x") = Num(-4)
        /\ ValueIn(last, "y") = Num(-4)
        /\ ValueIn(last, "z") = Num(3)

\* the square root of a perfect square
Root(n) == CHOOSE r \in 0..n : r * r = n

\* what the call of a query stands for: abs, min, max, sqrt and pow on its
\* arguments; for another name the first argument, 0 without arguments
CallValue(q) ==
    CASE q.f = "abs" -> IF q.args[1] < 0 THEN -q.args[1] ELSE q.args[1]
      [] q.f = "min" -> IF q.args[1] < q.args[2] THEN q.args[1] ELSE q.args[2]
      [] q.f = "max" -> IF q.args[1] > q.args[2] THEN q.args[1] ELSE q.args[2]
      [] q.f = "sqrt" -> Root(q.args[1])
      [] q.f = "pow" -> q.args[1] ^ q.args[2]
      [] OTHER -> IF q.args = <<>> THEN 0 ELSE q.args[1]

\* evaluateExpression has answered the call f(args)
Called(f, args) ==
    query.kind = "call" /\ answer.done /\ query.f = f /\ query.args = args

\* C22: the value of a call f(args) is abs, min, max, sqrt or pow of the
\* arguments, and for any other name the first argument, or 0 when there is
\* none; max(3,7) is 7 and abs(-5) is 5.
C22_FunctionCalls ==
    /\ (query.kind = "call" /\ answer.done
        /\ (query.f = "sqrt" => query.args[1] >= 0))
           => answer.value = Num(CallValue(query))
    /\ Called("max", <<3, 7>>) => answer.value = Num(7)
    /\ Called("abs", <<-5>>) => answer.value = Num(5)

\* max(3,7) has been evaluated, to 0
C22_Witness == Called("max", <<3, 7>>) /\ answer.value = Num(0)

\* the line of the brace that closes the main of line m; past the last line
\* when no line closes it
MainEnd(m) ==
    IF findLoopEnd(Lines, m, m, 0) = m THEN Len(Lines) + 1
    ELSE findLoopEnd(Lines, m, m, 0)

\* line n stands between the line of main and the brace that closes main
InsideMain(n) ==
    \E m \in 1..Len(Lines) :
        /\ Lines[m].kind = "main"
        /\ m < n
        /\ n < MainEnd(m)

\* C23: statements outside main, before its line or after its closing brace,
\* emit no snapshot and leave no variable: every snapshot of the trace being
\* built is of a line inside main and holds only variables declared there.
C23_OutsideMainInert ==
    pc \in {"passC", "loop"}
        => \A k \in 1..Len(Emitted) :
               /\ InsideMain(Emitted[k].currentLine)
               /\ \A v \in 1..Len(Emitted[k].variables) :
                      \E n \in 1..Len(Lines) :
                          /\ InsideMain(n)
                          /\ Lines[n].kind \in {"prim", "arrdecl", "ptrnew",
                                                "ptrref", "ptrnull", "for"}
                          /\ Emitted[k].variables[v].name =
                                 (IF Lines[n].kind = "for" THEN Lines[n].v
                                  ELSE Lines[n].name)

\* "int y = 2;" of the function after main has emitted a snapshot, with y in it
C23_Witness ==
    /\ pc = "passC"
    /\ Lines = SrcAfterMain
    /\ Len(states) = 2
    /\ states[2].currentLine = 6
    /\ ValueIn(states[2], "y") = Num(2)

HeapIds(hp) == {hp[k].id : k \in 1..Len(hp)}

\* the step about to be taken hands a line of this kind to parseLine
Executes(kind) ==
    \/ /\ pc = "passC"
       /\ i \in 1..Len(Lines)
       /\ inMain
       /\ loopAt(loopRanges, i) = 0
       /\ Lines[i].kind = kind
    \/ /\ pc = "loop"
       /\ AtStatement
       /\ Lines[AtLine].kind = kind

\* every object of the heap is still there, with every field it had
HeapKept ==
    \A k \in 1..Len(heap) :
        /\ HeapHas(heap', heap[k].id)
        /\ \A f \in 1..Len(heap[k].fields) :
               FieldHas(heap'[HeapIdx(heap', heap[k].id)].fields,
                        heap[k].fields[f].name)

\* one object has been added, with an id the heap did not hold and no field
OneAdded ==
    \E id \in HeapIds(heap') \ HeapIds(heap) :
        /\ HeapIds(heap') = HeapIds(heap) \cup {id}
        /\ heap'[HeapIdx(heap', id)].fields = <<>>

\* C24: every execution of "T* name = new U()", in a loop iteration as well,
\* adds exactly one heap object without fields under an id the heap did not
\* hold; objects and their fields are never removed or reset; no other
\* statement changes the set of heap ids.
C24_HeapOnlyGrows ==
    [][(pc \in {"passC", "loop"} /\ pc' \in {"passC", "loop"})
           => /\ HeapKept
              /\ Executes("ptrnew") => OneAdded
              /\ ~Executes("ptrnew") => HeapIds(heap') = HeapIds(heap)]_vars

\* the second iteration has run "Node* p = new Node();": the heap holds one
\* object, and the field the first iteration gave it is gone
C24_Witness ==
    /\ AtLine = 4
    /\ Lines = SrcAlloc
    /\ loop.iter = 1
    /\ Len(heap) = 1
    /\ heap[1].fields = <<>>

\* the step about to be taken hands a line to parseLine
Executing ==
    \/ /\ pc = "passC"
       /\ i \in 1..Len(Lines)
       /\ inMain
       /\ loopAt(loopRanges, i) = 0
       /\ Lines[i].kind \notin {"blank", "pre", "comment", "main", "open",
                                "close", "return", "io"}
    \/ /\ pc = "loop"
       /\ AtStatement

\* the number and the text of that line, the induction variable of the loop
\* replaced by its value
HandedNum == IF pc = "passC" THEN i ELSE AtLine
Handed ==
    IF pc = "loop" /\ Unrolling.type = "for"
       /\ MapHas(variables, Unrolling.varName)
    THEN substitute(Lines[AtLine], Unrolling.varName,
                    MapGet(variables, Unrolling.varName).value)
    ELSE Lines[HandedNum]

NoShape(line) ==
    line.kind \notin {"prim", "arrdecl", "arrmod", "ptrnew", "ptrref",
                      "ptrnull", "member", "ptrmove", "assign", "incdec",
                      "compound", "swap"}

Declared(name) == MapHas(variables, name)
IsArrayName(name) ==
    Declared(name) /\ MapGet(variables, name).value.t = "arr"
\* the pointer is declared and points to an object of the heap
PointsToObject(name) ==
    /\ Declared(name)
    /\ MapGet(variables, name).pointsTo.t = "hid"
    /\ HeapHas(heap, MapGet(variables, name).pointsTo)
ObjectOf(name) == heap[HeapIdx(heap, MapGet(variables, name).pointsTo)]

\* the line has a shape, and what it is to change does not exist
TargetMissing(line) ==
    CASE line.kind = "arrmod" -> ~IsArrayName(line.name)
      [] line.kind = "swap" -> ~IsArrayName(line.name)
      [] line.kind = "member" -> ~PointsToObject(line.name)
      [] line.kind = "ptrmove" ->
            \/ ~PointsToObject(line.source)
            \/ ~FieldHas(ObjectOf(line.source).fields, line.field)
            \/ ~Declared(line.name)
      [] line.kind \in {"assign", "incdec", "compound"} -> ~Declared(line.name)
      [] OTHER -> FALSE

\* C25: a line that matches no shape, or a shape whose target does not exist
\* (undeclared variable, name that is not an array, null or unknown pointer,
\* missing source field), leaves the variable map and the heap as they are
\* and emits no snapshot; a snapshot of the line is appended exactly once for
\* every executed line that reports a change, and for no other.
C25_ChangedOrNothing ==
    [][(pc \in {"passC", "loop"} /\ pc' \in {"passC", "loop"})
           => /\ Executing /\ (NoShape(Handed) \/ TargetMissing(Handed))
                  => /\ variables' = variables
                     /\ heap' = heap
                     /\ arrays' = arrays
                     /\ Emitted' = Emitted
              /\ Executing
                  /\ parseLine(Handed, variables, heap, arrays, now').changed
                  => /\ Len(Emitted') = Len(Emitted) + 1
                     /\ SubSeq(Emitted', 1, Len(Emitted)) = Emitted
                     /\ Emitted'[Len(Emitted')].currentLine = HandedNum
              /\ ~(Executing
                   /\ parseLine(Handed, variables, heap, arrays, now').changed)
                  => Emitted' = Emitted]_vars

\* the program of SrcMissing has run: ten lines without a target or a shape
\* left no trace, the three declarations and "x = 5" emitted a snapshot each
C25_Witness ==
    /\ pc = "passC"
    /\ Lines = SrcMissing
    /\ i > Len(Lines)
    /\ Len(states) = 4
    /\ Len(variables) = 3
    /\ states[4].currentLine = 15
    /\ ValueIn(states[4], "x") = Num(5)

\* what one application of the header's step adds to the induction variable
StepOf(increment) ==
    CASE increment = "++" -> 1
      [] increment = "--" -> -1
      [] increment = "+=2" -> 2
      [] increment = "-=2" -> -2

\* the for-loop being unrolled is in its iteration number loop.iter
InIteration ==
    /\ pc = "loop"
    /\ Unrolling.type = "for"
    /\ loop.pos > 0

\* C26: during the k-th iteration of a for-loop (k from 0) the induction
\* variable is a primitive int whose value is the start value advanced k
\* times by the step of the header: +1 for ++, -1 for --, +c for += c, -c
\* for -= c.
C26_InductionValue ==
    (InIteration /\ IsNum(Unrolling.startVal))
        => /\ MapHas(variables, Unrolling.varName)
           /\ MapGet(variables, Unrolling.varName).visualType = "primitive"
           /\ MapGet(variables, Unrolling.varName).type = TypeOf("int", FALSE, -1)
           /\ MapGet(variables, Unrolling.varName).value =
                  Num(Unrolling.startVal.n
                      + loop.iter * StepOf(Unrolling.increment))

\* the second iteration of "for (int i = 3; i > 0; i--)": i is 4
C26_Witness ==
    /\ InIteration
    /\ Lines = SrcDown
    /\ Unrolling.varName = "i"
    /\ loop.iter = 1
    /\ MapGet(variables, "i").value = Num(4)

\* the session is live after the step as before, with the same trace and the
\* same current step
Untouched(id) ==
    /\ id \in DOMAIN sessions'
    /\ sessions'[id].states = sessions[id].states
    /\ sessions'[id].currentStep = sessions[id].currentStep

\* the step answers a stepForward, stepBackward or endSession on this session
ActsOn(id) ==
    /\ resp'.id = id
    /\ resp'.op \in {"stepForward", "stepBackward", "endSession"}

\* C27: sessions are isolated.  Whatever is done to a session (stepForward,
\* stepBackward, getState, endSession), and the start of a new session, leave
\* the states and the currentStep of every other live session as they are;
\* getState changes no session at all, and a new session is stored under an
\* id no live session has.
C27_SessionsIsolated ==
    [][/\ \A id \in DOMAIN sessions : Untouched(id) \/ ActsOn(id)
       /\ resp'.op = "getState" /\ resp' # resp => sessions' = sessions
       /\ \A id \in DOMAIN sessions' \ DOMAIN sessions :
              /\ resp'.op = "start"
              /\ resp'.id = id
              /\ DOMAIN sessions' = DOMAIN sessions \cup {id}]_vars

\* two sessions were started and the second stepped forward; the first was
\* then ended: the second is still at step 1 of its two snapshots
C27_Witness ==
    /\ DOMAIN sessions = {2}
    /\ 1 \in ended
    /\ resp.op = "endSession" /\ resp.id = 1 /\ resp.success
    /\ Len(sessions[2].states) = 2
    /\ sessions[2].currentStep = 1

\* line n declares the variable: a declaration, or the header of a for-loop
Declares(n, name) ==
    \/ /\ Lines[n].kind \in {"prim", "arrdecl", "ptrnew", "ptrref", "ptrnull"}
       /\ Lines[n].name = name
    \/ /\ Lines[n].kind = "for"
       /\ Lines[n].v = name

\* Pass C has executed the declaration of the variable when it emits
\* snapshot k: an earlier snapshot, or this one, is the one of the declaration,
\* or the header of the loop stands before the line of the snapshot
DeclaredBy(k, name) ==
    \/ \E j \in 1..k :
           /\ Lines[Emitted[j].currentLine].kind # "for"
           /\ Declares(Emitted[j].currentLine, name)
    \/ \E n \in 1..(Emitted[k].currentLine - 1) :
           /\ Lines[n].kind = "for"
           /\ Declares(n, name)

\* C28: what the first pass collects does not show in the trace: the
\* variables of a snapshot are variables whose declaration Pass C has
\* executed at or before that snapshot, or induction variables of loops it
\* has entered; the first snapshot of a program that starts with two
\* declarations holds the first declared variable only.
C28_NoLeakFromFirstPass ==
    pc \in {"passC", "loop"}
        => \A k \in 1..Len(Emitted) :
               \A v \in 1..Len(Emitted[k].variables) :
                   DeclaredBy(k, Emitted[k].variables[v].name)

\* "int n = 2; int arr[2] = {0, 0}; ...": the snapshot of "int n = 2;", the
\* first of the trace, holds n and arr
C28_Witness ==
    /\ pc = "passC"
    /\ Lines = SrcFill
    /\ Len(states) >= 1
    /\ states[1].currentLine = 2
    /\ Len(states[1].variables) = 2
    /\ states[1].variables[2].name = "arr"

\* for-loop number n lies inside the body of for-loop number o
NestedIn(n, o) ==
    /\ loopRanges[o].type = "for"
    /\ loopRanges[n].type = "for"
    /\ loopRanges[n].start > loopRanges[o].start
    /\ loopRanges[n].end < loopRanges[o].end

\* the snapshots of the trace emitted for the line
Executions(lineNum) ==
    Cardinality({k \in 1..Len(states) : states[k].currentLine = lineNum})

\* Pass C has read the last line of the program
Unrolled == pc = "passC" /\ i > Len(Lines)

\* C29: a for-loop nested in the body of another for-loop is itself unrolled:
\* with n passes of the outer loop and m of the inner one, a statement of the
\* inner body that changes a declared variable is executed n * m times.
C29_NestedUnrolled ==
    Unrolled
        => \A o \in 1..Len(loopRanges), n \in 1..Len(loopRanges) :
               NestedIn(n, o) /\ IsNum(loopRanges[o].iterations)
                   /\ IsNum(loopRanges[n].iterations)
                   => \A b \in 1..Len(bodyLines(Lines, loopRanges[n])) :
                          LET lineNum == bodyLines(Lines, loopRanges[n])[b] IN
                          Lines[lineNum].kind = "incdec"
                              /\ MapHas(variables, Lines[lineNum].name)
                              => Executions(lineNum) =
                                     loopRanges[o].iterations.n
                                     * loopRanges[n].iterations.n

\* two passes of the outer loop around three of the inner one: "count++" was
\* executed twice and count is 2
C29_Witness ==
    /\ Unrolled
    /\ Lines = SrcNested
    /\ Executions(5) = 2
    /\ MapGet(variables, "count").value = Num(2)
    /\ ~MapHas(variables, "j")

IsPointerIn(st, name) ==
    MapHas(st.variables, name)
        /\ MapGet(st.variables, name).visualType = "pointer"
PointsToIn(st, name) == MapGet(st.variables, name).pointsTo

\* C30: a pointer's pointsTo agrees with its value: in the snapshot of
\* "p = q" between two pointers p.pointsTo is q.pointsTo, and in the snapshot
\* of "p = nullptr" p.pointsTo is null.
C30_PointsToFollowsValue ==
    pc \in {"passC", "loop"}
        => \A k \in 1..Len(Emitted) :
               LET st == Emitted[k]
                   line == Lines[st.currentLine]
               IN  line.kind = "assign" /\ IsPointerIn(st, line.name)
                       => /\ line.ex.e = "null"
                              => PointsToIn(st, line.name) = Null
                          /\ line.ex.e = "var" /\ IsPointerIn(st, line.ex.x)
                              => PointsToIn(st, line.name) =
                                     PointsToIn(st, line.ex.x)

\* the snapshot of "q = p": the value of q is the object of p, its pointsTo
\* is still null
C30_Witness ==
    /\ pc = "passC"
    /\ Lines = SrcRepoint
    /\ Len(states) >= 3
    /\ states[3].currentLine = 4
    /\ ValueIn(states[3], "q") = ValueIn(states[3], "p")
    /\ PointsToIn(states[3], "p").t = "hid"
    /\ PointsToIn(states[3], "q") = Null

====
